---- MODULE Spec2Model ----
(***************************************************************************)
(* Model of the MD time-series store of Agate (HistDataMD,                 *)
(* src/src/hist/histdatamd.cpp): construction, segment merge, frame        *)
(* interpolation, frame lookups, VACF aggregation and the PDOS request     *)
(* path.                                                                   *)
(*                                                                         *)
(* The series of the store hold C++ doubles.  They are modelled as         *)
(* IEEE-754 binary64 values (round to nearest, ties to even) so that       *)
(* "the same value" means what it means for the compiled program.          *)
(***************************************************************************)
EXTENDS Integers, Sequences, FiniteSets, TLC

(***************************************************************************)
(* Natural numbers of any size, as little-endian sequences of limbs below  *)
(* LimbBase with no leading zero limb (zero is the empty sequence).        *)
(* A 53-bit significand does not fit the integers of the model checker.    *)
(***************************************************************************)
LimbBase == 2 ^ 14

\* F applied to the value of e, with e evaluated once.
Bind(e, F(_)) == CHOOSE y \in {F(x) : x \in {e}} : TRUE

Bind2(a, b, F(_, _)) == CHOOSE r \in {F(x, y) : x \in {a}, y \in {b}} : TRUE

RECURSIVE BNorm(_)
BNorm(a) ==
  IF a = <<>> THEN <<>>
  ELSE IF a[Len(a)] = 0 THEN Bind(SubSeq(a, 1, Len(a) - 1), BNorm)
  ELSE a

RECURSIVE BFromNat(_)
BFromNat(n) ==
  IF n = 0 THEN <<>> ELSE <<n % LimbBase>> \o BFromNat(n \div LimbBase)

LimbOr0(a) == IF a = <<>> THEN 0 ELSE Head(a)

RestOf(a) == IF a = <<>> THEN <<>> ELSE Tail(a)

RECURSIVE BAddC(_, _, _)
BAddC(a, b, c) ==
  IF a = <<>> /\ b = <<>> THEN (IF c = 0 THEN <<>> ELSE <<c>>)
  ELSE Bind(LimbOr0(a) + LimbOr0(b) + c,
            LAMBDA x : <<x % LimbBase>>
                         \o Bind2(RestOf(a), RestOf(b),
                                  LAMBDA ta, tb : BAddC(ta, tb, x \div LimbBase)))

BAdd(a, b) == BAddC(a, b, 0)

\* a - b - br for a >= b + br; the result may carry leading zero limbs.
RECURSIVE BSubB(_, _, _)
BSubB(a, b, br) ==
  IF a = <<>> THEN <<>>
  ELSE Bind(Head(a) - LimbOr0(b) - br,
            LAMBDA x : <<x % LimbBase>>
                         \o Bind2(Tail(a), RestOf(b),
                                  LAMBDA ta, tb :
                                    BSubB(ta, tb, IF x < 0 THEN 1 ELSE 0)))

BSub(a, b) == Bind(BSubB(a, b, 0), BNorm)

\* a * k + c for a limb-sized k.
RECURSIVE BMulSmallC(_, _, _)
BMulSmallC(a, k, c) ==
  IF a = <<>> THEN BFromNat(c)
  ELSE Bind(Head(a) * k + c,
            LAMBDA x : <<x % LimbBase>>
                         \o Bind(Tail(a),
                                 LAMBDA ta : BMulSmallC(ta, k, x \div LimbBase)))

BMulSmall(a, k) == Bind(BMulSmallC(a, k, 0), BNorm)

RECURSIVE BMulRaw(_, _)
BMulRaw(a, b) ==
  IF b = <<>> THEN <<>>
  ELSE Bind2(BMulSmallC(a, Head(b), 0),
             <<0>> \o Bind(Tail(b), LAMBDA tb : BMulRaw(a, tb)),
             BAdd)

BMul(a, b) == Bind(BMulRaw(a, b), BNorm)

\* Quotient (possibly with leading zero limbs) and remainder of a by a
\* limb-sized k > 0.
RECURSIVE BDivSmallR(_, _)
BDivSmallR(a, k) ==
  IF a = <<>> THEN [q |-> <<>>, r |-> 0]
  ELSE Bind2(Bind(Tail(a), LAMBDA ta : BDivSmallR(ta, k)), Head(a),
             LAMBDA hi, a1 :
               [q |-> <<(hi.r * LimbBase + a1) \div k>> \o hi.q,
                r |-> (hi.r * LimbBase + a1) % k])

BDivSmall(a, k) ==
  Bind(BDivSmallR(a, k), LAMBDA d : [q |-> BNorm(d.q), r |-> d.r])

RECURSIVE NatBitLen(_)
NatBitLen(n) == IF n = 0 THEN 0 ELSE 1 + NatBitLen(n \div 2)

LimbBits == NatBitLen(LimbBase) - 1

BBitLen(a) ==
  IF a = <<>> THEN 0 ELSE (Len(a) - 1) * LimbBits + NatBitLen(a[Len(a)])

BZeros(n) == [i \in 1..n |-> 0]

BShl(a, n) ==
  IF a = <<>> THEN <<>>
  ELSE Bind(BZeros(n \div LimbBits) \o a,
            LAMBDA x : BMulSmall(x, 2 ^ (n % LimbBits)))

BShr(a, n) ==
  IF n \div LimbBits >= Len(a) THEN <<>>
  ELSE Bind(SubSeq(a, (n \div LimbBits) + 1, Len(a)),
            LAMBDA x : BDivSmall(x, 2 ^ (n % LimbBits)).q)

\* -1, 0 or 1 as a < b, a = b, a > b (both without leading zero limbs).
RECURSIVE BCmp(_, _)
BCmp(a, b) ==
  IF Len(a) # Len(b) THEN (IF Len(a) < Len(b) THEN -1 ELSE 1)
  ELSE IF a = <<>> THEN 0
  ELSE IF a[Len(a)] # b[Len(b)] THEN (IF a[Len(a)] < b[Len(b)] THEN -1 ELSE 1)
  ELSE Bind2(SubSeq(a, 1, Len(a) - 1), SubSeq(b, 1, Len(b) - 1), BCmp)

\* The largest d <= d0 with b * d <= r.
RECURSIVE BFixDigit(_, _, _)
BFixDigit(r, b, d0) ==
  IF d0 > 0 /\ BCmp(BMulSmall(b, d0), r) > 0 THEN BFixDigit(r, b, d0 - 1)
  ELSE d0

\* One step of the long division by b, whose top limb is at least
\* LimbBase / 2: the next limb a1 of the dividend is brought down to the
\* remainder of acc, and the quotient digit is estimated from the top limbs
\* of the remainder and of b, at most 2 too large.
BDivStep(acc, a1, b) ==
  Bind(BNorm(<<a1>> \o acc.r), LAMBDA r :
    IF Len(r) < Len(b) THEN [q |-> <<0>> \o acc.q, r |-> r]
    ELSE Bind(BFixDigit(r, b,
                 LET top == IF Len(r) > Len(b)
                              THEN r[Len(r)] * LimbBase + r[Len(r) - 1]
                              ELSE r[Len(r)]
                     est == top \div b[Len(b)]
                 IN IF est > LimbBase - 1 THEN LimbBase - 1 ELSE est),
              LAMBDA d : [q |-> <<d>> \o acc.q,
                          r |-> BSub(r, BMulSmall(b, d))]))

RECURSIVE BDivModR(_, _)
BDivModR(a, b) ==
  IF a = <<>> THEN [q |-> <<>>, r |-> <<>>]
  ELSE Bind2(Bind(Tail(a), LAMBDA ta : BDivModR(ta, b)), Head(a),
             LAMBDA hi, a1 : BDivStep(hi, a1, b))

\* Quotient of a by b # 0, and whether the division is exact; both are
\* first shifted so that the top limb of b is at least LimbBase / 2.
BDivMod(a, b) ==
  Bind(LimbBits - NatBitLen(b[Len(b)]), LAMBDA sh :
  Bind(BDivModR(BShl(a, sh), BShl(b, sh)), LAMBDA d :
    [q |-> BNorm(d.q), exact |-> d.r = <<>>]))

(***************************************************************************)
(* Doubles: zero, or (-1)^s * m * 2^e with m odd and of at most SigBits    *)
(* bits, so that every double has one representation.  Exponent range,     *)
(* infinities and NaN are not modelled: the values of the model stay far   *)
(* from overflow and underflow.                                            *)
(***************************************************************************)
SigBits == 53

FZero == [s |-> 0, e |-> 0, m |-> <<>>]

FIsZero(a) == a.m = <<>>

RECURSIVE NatTrailingZeros(_)
NatTrailingZeros(n) ==
  IF n % 2 = 1 THEN 0 ELSE 1 + NatTrailingZeros(n \div 2)

\* Number of zero limbs below the lowest non-zero limb of m # 0.
BLowZeroLimbs(m) == (CHOOSE i \in 1..Len(m) : m[i] # 0 /\ \A j \in 1..i - 1 : m[j] = 0) - 1

\* m * 2^e, m # 0 of at most SigBits bits, with m made odd.
FCanon(s, m, e) ==
  Bind(BLowZeroLimbs(m), LAMBDA k :
  Bind(SubSeq(m, k + 1, Len(m)), LAMBDA x :
  Bind(NatTrailingZeros(x[1]), LAMBDA t :
    [s |-> s, e |-> e + k * LimbBits + t,
     m |-> IF t = 0 THEN x ELSE BDivSmall(x, 2 ^ t).q])))

\* m with more than SigBits bits: drop the low d bits, ties to even.
FDrop(s, m, e, d) ==
  Bind(BShr(m, d),
       LAMBDA q :
         Bind(BCmp(BSub(m, BShl(q, d)), BShl(<<1>>, d - 1)),
              LAMBDA c :
                IF c > 0 \/ (c = 0 /\ q[1] % 2 = 1)
                  THEN Bind(BAdd(q, <<1>>), LAMBDA q2 : FCanon(s, q2, e + d))
                  ELSE FCanon(s, q, e + d)))

FRoundV(s, m, e) ==
  IF m = <<>> THEN FZero
  ELSE Bind(BBitLen(m), LAMBDA n :
         IF n <= SigBits THEN FCanon(s, m, e)
         ELSE FDrop(s, m, e, n - SigBits))

\* The double nearest to (-1)^s * m * 2^e, ties to even.
FRound(s, m, e) == Bind(m, LAMBDA x : FRoundV(s, x, e))

FFromNat(n) == FRound(0, BFromNat(n), 0)

\* 2^k
FPow2(k) == [s |-> 0, e |-> k, m |-> <<1>>]

FNeg(a) == Bind(a, LAMBDA x : IF FIsZero(x) THEN x ELSE [x EXCEPT !.s = 1 - x.s])

FAbs(a) == [a EXCEPT !.s = 0]

FMulV(a, b) ==
  IF FIsZero(a) \/ FIsZero(b) THEN FZero
  ELSE FRound((a.s + b.s) % 2, BMul(a.m, b.m), a.e + b.e)

FMul(a, b) == Bind2(a, b, FMulV)

FAddAligned(sa, ma, sb, mb, e) ==
  IF sa = sb THEN FRound(sa, BAdd(ma, mb), e)
  ELSE Bind(BCmp(ma, mb),
            LAMBDA c : IF c = 0 THEN FZero
                       ELSE IF c > 0 THEN FRound(sa, BSub(ma, mb), e)
                       ELSE FRound(sb, BSub(mb, ma), e))

FAddV(a, b) ==
  IF FIsZero(a) THEN b
  ELSE IF FIsZero(b) THEN a
  ELSE LET emin == IF a.e < b.e THEN a.e ELSE b.e
       IN Bind2(BShl(a.m, a.e - emin), BShl(b.m, b.e - emin),
                LAMBDA ma, mb : FAddAligned(a.s, ma, b.s, mb, emin))

FAdd(a, b) == Bind2(a, b, FAddV)

FSub(a, b) == FAdd(a, FNeg(b))

\* The quotient is computed to more than SigBits + 2 bits, with one more
\* bit that says whether the division left a remainder.
FDivNatV(a, n) ==
  IF FIsZero(a) THEN FZero
  ELSE Bind(SigBits + 2 * LimbBits - BBitLen(a.m), LAMBDA k :
       Bind(BDivSmall(BShl(a.m, k), n), LAMBDA d :
         FRound(a.s,
                BAdd(BShl(d.q, 1), IF d.r = 0 THEN <<>> ELSE <<1>>),
                a.e - k - 1)))

\* a / (double) n for an unsigned n with 0 < n < LimbBase.
FDivNat(a, n) == Bind(a, LAMBDA x : FDivNatV(x, n))

\* a / b for b # 0: the quotient of the significands to SigBits + 2 bits
\* or more, with one more bit that says whether a remainder was left.
FDivV(a, b) ==
  IF FIsZero(a) THEN FZero
  ELSE Bind(SigBits + 2 + BBitLen(b.m), LAMBDA k :
       Bind(BDivMod(BShl(a.m, k), b.m), LAMBDA d :
         FRound((a.s + b.s) % 2,
                BAdd(BShl(d.q, 1), IF d.exact THEN <<>> ELSE <<1>>),
                a.e - b.e - k - 1)))

FDiv(a, b) == Bind2(a, b, FDivV)

FLess(a, b) == Bind(FSub(a, b), LAMBDA d : ~FIsZero(d) /\ d.s = 1)

FOne == [s |-> 0, e |-> 0, m |-> <<1>>]

(***************************************************************************)
(* The store.  md[1] and md[2] are two HistDataMD objects over the same    *)
(* atoms; each holds the HistData frame counters and the five MD series.   *)
(* Index i of a C++ vector is index i + 1 of the sequence modelling it.    *)
(***************************************************************************)
VARIABLES natom, tryToMap, md, last, steps, fft

vars == <<natom, tryToMap, md, last, steps, fft>>

Ids == {1, 2}

MaxThreads == 2

\* The threads of one OpenMP team that call getPDOS.
Threads == 1..MaxThreads

\* fft.pc[t] is the statement of getPDOS thread t is executing, fft.owner
\* the thread inside the critical section pdos_fft (0: none), fft.planner
\* whether the build defines HAVE_FFTW3_THREADS (with HAVE_OMP and
\* HAVE_FFTW3).
NoCalls == [pc |-> [t \in Threads |-> "idle"], owner |-> 0, planner |-> TRUE]

MaxAtoms == 3

MaxT == 2

MaxReserve == 1

MaxOps == 2

XYZ == 3

MDFields == <<"ekin", "velocities", "temperature", "pressure", "entropy">>

\* Frames' worth of entries of one series: velocities hold 3 per atom.
Width(f) == IF f = "velocities" THEN XYZ * natom ELSE 1

\* A value no series of the model holds: what a read past the end of a
\* vector may return.
Garbage == FFromNat(7777)

Min(x, y) == IF x < y THEN x ELSE y

\* std::vector<double>::resize(n) and resize(n, 0.)
Resize(v, n) ==
  IF n <= Len(v) THEN SubSeq(v, 1, n)
  ELSE v \o [i \in 1..(n - Len(v)) |-> FZero]

\* A copy that ignores the offset and writes at the start of dst.
CopyAtStart(dst, src, off) ==
  IF src = <<>> THEN dst
  ELSE SubSeq(src, 1, Min(Len(src), Len(dst)))
         \o SubSeq(dst, Len(src) + 1, Len(dst))

\* std::copy(src.begin(), src.end(), dst.begin() + off): the writes that
\* fall inside dst, and whether all of them do.
CopyAt(dst, src, off) ==
  IF off >= Len(dst) \/ src = <<>> THEN dst
  ELSE SubSeq(dst, 1, off)
         \o SubSeq(src, 1, Min(Len(src), Len(dst) - off))
         \o SubSeq(dst, off + Len(src) + 1, Len(dst))

CopyFits(dst, src, off) == Len(src) = 0 \/ off + Len(src) <= Len(dst)

\* The series a trajectory reader leaves in store id: n recorded frames,
\* every entry a different value; the velocities change sign from one
\* frame to the next.
Recorded(id, k, n, w) ==
  [i \in 1..n * w |->
     IF k = 2 /\ ((i - 1) \div w) % 2 = 1
       THEN FNeg(FFromNat(1000 * id + 100 * k + i))
       ELSE FFromNat(1000 * id + 100 * k + i)]

\* The spacing of the frames of a trajectory, in atomic units of time.
DefaultDt == FFromNat(100)

\* _time of n frames dt apart, the first at 0.
Frames(n, dt) == [i \in 1..n |-> FMul(FFromNat(i - 1), dt)]

ReadStore(id, n, na) ==
  [ntime       |-> n,
   ntimeAvail  |-> n,
   time        |-> Frames(n, DefaultDt),
   ekin        |-> Recorded(id, 1, n, 1),
   velocities  |-> Recorded(id, 2, n, XYZ * na),
   temperature |-> Recorded(id, 3, n, 1),
   pressure    |-> Recorded(id, 4, n, 1),
   entropy     |-> Recorded(id, 5, n, 1)]

\* HistDataMD(const HistData&) and HistDataMD(HistData&&): the series are
\* zero-filled to the capacity of the generic store.
ConstructFromHist(n, avail, na) ==
  [ntime       |-> n,
   ntimeAvail  |-> avail,
   time        |-> Frames(n, DefaultDt),
   ekin        |-> Resize(<<>>, avail),
   velocities  |-> Resize(<<>>, XYZ * na * avail),
   temperature |-> Resize(<<>>, avail),
   pressure    |-> Resize(<<>>, avail),
   entropy     |-> Resize(<<>>, avail)]

(***************************************************************************)
(* Execution of a member function: h.st is the objects, h.ub whether the   *)
(* execution has written or read past the end of a vector, h.base how many *)
(* times HistData::operator+= has run, h.cur the local currentTime, h.wr   *)
(* the frame slots the interpolation has written, h.arg the arguments of   *)
(* the call, h.res what it returns, h.warn the warnings it has printed and  *)
(* h.thrown whether an exception has left it.                              *)
(***************************************************************************)
NoArg == <<>>

Start(s) ==
  [st |-> s, ub |-> FALSE, base |-> 0, cur |-> 0, wr |-> {}, arg |-> NoArg,
   res |-> <<>>, warn |-> {}, thrown |-> FALSE]

\* A sequential loop for (i = lo; i < hi; ++i) Op(h, i), split in halves.
RECURSIVE Iter(_, _, _, _)
Iter(Op(_, _), h, lo, hi) ==
  IF hi <= lo THEN h
  ELSE IF hi = lo + 1 THEN Op(h, lo)
  ELSE Bind(Iter(Op, h, lo, (lo + hi) \div 2),
            LAMBDA x : Iter(Op, x, (lo + hi) \div 2, hi))

ResizeField(h, id, f, n) == [h EXCEPT !.st[id][f] = Resize(@, n)]

CopyField(h, b, fdst, a, fsrc, off) ==
  LET dst == h.st[b][fdst]
      src == h.st[a][fsrc]
  IN [h EXCEPT !.st[b][fdst] = CopyAt(dst, src, off),
               !.ub = @ \/ ~CopyFits(dst, src, off)]

\* HistData::operator+=(HistData&) appending to object b the frames of a
\* store whose time axis is t: the frame count becomes the sum of both
\* counts and the time axis the concatenation.
HistDataPlusEq(h, b, t) ==
  LET n == h.st[b].ntime + Len(t)
  IN [h EXCEPT !.st[b].ntime = n,
               !.st[b].ntimeAvail = IF @ < n THEN n ELSE @,
               !.st[b].time = @ \o t,
               !.base = @ + 1]

\* What this->reorder(hist) can give: a permutation of the atoms, or an
\* exception.
Identity == [i \in 1..natom |-> i]

Reversal == [i \in 1..natom |-> natom + 1 - i]

Rotation == [i \in 1..natom |-> (i % natom) + 1]

ReorderResults(b, a) ==
  IF a = b THEN {[ok |-> TRUE, order |-> Identity]}
  ELSE {[ok |-> TRUE, order |-> o] : o \in {Identity, Reversal, Rotation}}
         \cup {[ok |-> FALSE, order |-> <<>>]}

\* hist._velocities[itime*3*_natom + order[iatom]*3 + coord] for the k-th
\* entry (k = iatom*3 + coord) of frame itime.
PermutedEntry(src, itime, k, order) ==
  LET q == itime * 3 * natom + (order[(k \div 3) + 1] - 1) * 3 + (k % 3) + 1
  IN IF q <= Len(src) THEN src[q] ELSE Garbage

\* Body of the loop over itime of the permuted velocity copy.
VelFramePermuted(h, itime, b, a, order, start) ==
  LET n3  == 3 * natom
      dst == h.st[b].velocities
      src == h.st[a].velocities
      lo  == start + itime * n3
      w   == IF lo >= Len(dst) THEN 0 ELSE Min(n3, Len(dst) - lo)
  IN [h EXCEPT
        !.st[b].velocities =
           IF w = 0 THEN dst
           ELSE SubSeq(dst, 1, lo)
                  \o [k \in 1..w |-> PermutedEntry(src, itime, k - 1, order)]
                  \o SubSeq(dst, lo + n3 + 1, Len(dst)),
        !.ub = @ \/ lo + n3 > Len(dst) \/ (itime + 1) * n3 > Len(src)]

\* How a call that ran into undefined behaviour can end: it returns with
\* the writes that fell inside the vectors done, or the process dies.
Outcomes(h) == IF h.ub THEN {"ok", "crash"} ELSE {"ok"}

Alive == last.outcome # "crash" /\ steps < MaxOps

Done(op, b, a, h, r, out) ==
  /\ md' = h.st
  /\ last' = [op |-> op, b |-> b, a |-> a, pre |-> md, ub |-> h.ub,
              base |-> h.base, r |-> r, outcome |-> out, arg |-> h.arg,
              wr |-> h.wr, res |-> h.res, warn |-> h.warn]
  /\ steps' = steps + 1
  /\ UNCHANGED <<natom, tryToMap, fft>>

\* Lines 285-300: the velocities of hist appended, permuted or not.
AppendVelocities(h, b, a, r, prevNtime) ==
  IF h.st[b].velocities = <<>> \/ h.st[a].velocities = <<>> THEN h
  ELSE Bind(ResizeField(h, b, "velocities", h.st[b].ntime * natom * XYZ),
            LAMBDA g :
              IF ~(tryToMap /\ r.ok /\ r.order # Identity)
                THEN CopyField(g, b, "velocities", a, "velocities",
                               prevNtime * natom * XYZ)
                ELSE Iter(LAMBDA h2, t :
                            VelFramePermuted(h2, t, b, a, r.order,
                                             prevNtime * natom * XYZ),
                          g, 0, g.st[a].ntime))

\* Lines 231-233: velocities missing in exactly one of the two stores are
\* zero-filled there.
DefaultVelocities(h, b, a, prevNtime) ==
  IF (h.st[b].velocities = <<>>) = (h.st[a].velocities = <<>>) THEN h
  ELSE IF h.st[b].velocities = <<>>
    THEN ResizeField(h, b, "velocities", XYZ * natom * prevNtime)
    ELSE ResizeField(h, a, "velocities", XYZ * natom * h.st[a].ntimeAvail)

\* The double 1e-6 = 0x1.0c6f7a0b5ed8dp-20.
DtTol == [s |-> 0, e |-> -72, m |-> <<11661, 727, 12154, 1073>>]

\* A warning that is thrown as well as printed.
EmitThrown(h, w, cond) ==
  IF cond THEN [h EXCEPT !.warn = @ \cup {w}, !.thrown = TRUE] ELSE h

\* Exception e(EXCEPTION(..., ERRWAR)); std::cout << e.fullWhat(): the
\* warning w is printed when cond holds; nothing is thrown.
Emit(h, w, cond) ==
  IF cond THEN [h EXCEPT !.warn = @ \cup {w}] ELSE h

\* Lines 219-226: the spacings of the first two frames of both stores
\* differ by more than 1e-6.
DtWarning(h, b, a) ==
  Emit(h, "dt",
       /\ h.st[b].ntime > 1
       /\ h.st[a].ntime > 1
       /\ Len(h.st[b].time) > 1
       /\ Len(h.st[a].time) > 1
       /\ FLess(DtTol,
                FAbs(FSub(FSub(h.st[b].time[2], h.st[b].time[1]),
                          FSub(h.st[a].time[2], h.st[a].time[1])))))

\* utils::mean(first, last) of a range that is not empty: the sum of the
\* entries in order over their number.
RECURSIVE SumSeq(_)
SumSeq(v) ==
  IF v = <<>> THEN FZero
  ELSE Bind(SumSeq(SubSeq(v, 1, Len(v) - 1)), LAMBDA x : FAdd(x, v[Len(v)]))

Mean(v) == FDivNat(SumSeq(v), Len(v))

\* abs(mean1-mean2)/mean1 > 0.5 for the means of two series.  Division
\* rounds monotonically and x/y = 0.5 only for x = y/2, so for y > 0 the
\* quotient exceeds 0.5 exactly when x > y/2; for y = 0 it is infinite
\* (x > 0) or not a number; for y < 0 it is not positive.  The mean of an
\* empty series is 0/0, not a number, and no comparison with it holds.
VeryDifferent(v1, v2) ==
  IF v1 = <<>> \/ v2 = <<>> THEN FALSE
  ELSE Bind2(Mean(v1), Mean(v2), LAMBDA m1, m2 :
         Bind(FAbs(FSub(m1, m2)), LAMBDA x :
           IF FIsZero(m1) THEN ~FIsZero(x)
           ELSE m1.s = 0 /\ FLess(FMul(FPow2(-1), m1), x)))

\* HistDataMD::operator+=(HistDataMD& hist) with this = md[b], hist = md[a]
\* (possibly the same object), r the result of this->reorder(hist), from
\* the objects h0; op names the entry point that was called.
MergeMD(op, h0, b, a, r) ==
  LET prevNtime == Len(h0.st[b].temperature)
  IN
  \E h0w \in {DtWarning(h0, b, a)} :
  \E h1 \in {IF prevNtime = h0.st[b].ntime
               THEN HistDataPlusEq(h0w, b, h0w.st[a].time) ELSE h0w} :
  \E h2 \in {DefaultVelocities(h1, b, a, prevNtime)} :
  \E h3 \in {ResizeField(h2, b, "ekin", h2.st[b].ntime)} :
  \E h4 \in {CopyField(h3, b, "ekin", a, "ekin", prevNtime)} :
  \E h4w \in {Emit(h4, "T", VeryDifferent(h4.st[b].temperature,
                                          h4.st[a].temperature))} :
  \E h5 \in {ResizeField(h4w, b, "temperature", h4w.st[b].ntime)} :
  \E h6 \in {CopyField(h5, b, "temperature", a, "temperature", prevNtime)} :
  \E h6w \in {Emit(h6, "P", VeryDifferent(h6.st[b].pressure,
                                          h6.st[a].pressure))} :
  \E h7 \in {ResizeField(h6w, b, "pressure", h6w.st[b].ntime)} :
  \E h8 \in {CopyField(h7, b, "pressure", a, "pressure", prevNtime)} :
  \E h9 \in {AppendVelocities(h8, b, a, r, prevNtime)} :
  \E h10 \in {ResizeField(h9, b, "entropy", h9.st[b].ntime)} :
  \E h11 \in {CopyField(h10, b, "ekin", a, "ekin", prevNtime)} :
  \E out \in (IF h11.thrown THEN {"throw"} ELSE Outcomes(h11)) :
    Done(op, b, a, h11, r, out)

\* HistDataMD::operator+=(HistData& hist) with hist a generic store of k
\* frames (the dynamic_cast fails).
MergeGenericPlain(h0, b, k) ==
  \E h1 \in {HistDataPlusEq(h0, b, Frames(k, DefaultDt))} :
  \E h2 \in {ResizeField(h1, b, "ekin", h1.st[b].ntime)} :
  \E h3 \in {ResizeField(h2, b, "temperature", h1.st[b].ntime)} :
  \E h4 \in {ResizeField(h3, b, "pressure", h1.st[b].ntime)} :
  \E h5 \in {ResizeField(h4, b, "velocities", h1.st[b].ntime * natom * XYZ)} :
  \E h6 \in {ResizeField(h5, b, "entropy", h1.st[b].ntime)} :
    Done("mergePlain", b, 0, h6, [ok |-> FALSE, order |-> <<>>], "ok")

NoOrder == [ok |-> FALSE, order |-> <<>>]

(***************************************************************************)
(* HistDataMD::interpolate                                                 *)
(***************************************************************************)

\* The double 1e-10 = 0x1.b7cdfd9d7bdbbp-34.
Tol == [s |-> 0, e |-> -86, m |-> <<15803, 10078, 3581, 1759>>]

\* std::abs(amplitude-1) < 1e-10
RemoveDuplica(amplitude) == FLess(FAbs(FSub(amplitude, FOne)), Tol)

\* A frame count that keeps the duplicated boundary frames.
NewNTimeKeepAll(n, ninter, dup) == ninter * (n - 1)

\* newNTime of lines 780 and 784.
NewNTime(n, ninter, dup) ==
  ninter * (n - 1) - (IF dup THEN n - 2 ELSE 0)

\* gamma*last + beta*first
Blend(gamma, beta, l, f) == FAdd(FMul(gamma, l), FMul(beta, f))

\* Lines 806-818 for one series: frame h.cur, w entries wide, is the blend
\* of the saved frame lastStep and of frame firstStep as the series holds it.
BlendField(h, b, f, w, saved, firstStep, beta, gamma) ==
  LET dst == h.st[b][f]
  IN [h EXCEPT !.st[b][f] =
        SubSeq(dst, 1, w * h.cur)
          \o [i \in 1..w |->
                Blend(gamma, beta, saved[i], dst[w * firstStep + i])]
          \o SubSeq(dst, w * h.cur + w + 1, Len(dst))]

\* Body of the loop over tinter, lines 803-819.
InterStep(h, b, saved, firstStep, beta, gamma) ==
  Bind(BlendField(h, b, "velocities", 3 * natom, saved.velocities,
                  firstStep, beta, gamma), LAMBDA h1 :
  Bind(BlendField(h1, b, "ekin", 1, saved.ekin,
                  firstStep, beta, gamma), LAMBDA h2 :
  Bind(BlendField(h2, b, "temperature", 1, saved.temperature,
                  firstStep, beta, gamma), LAMBDA h3 :
  Bind(BlendField(h3, b, "pressure", 1, saved.pressure,
                  firstStep, beta, gamma), LAMBDA h4 :
  Bind(BlendField(h4, b, "entropy", 1, saved.entropy,
                  firstStep, beta, gamma), LAMBDA h5 :
    [h5 EXCEPT !.wr = @ \cup {h5.cur}, !.cur = @ - 1])))))

\* Lines 796-800: the frame lastStep, copied before the loop over tinter.
SavedLast(h, b, lastStep) ==
  [f \in {"velocities", "ekin", "temperature", "pressure", "entropy"} |->
     LET w == IF f = "velocities" THEN 3 * natom ELSE 1
     IN SubSeq(h.st[b][f], w * lastStep + 1, w * (lastStep + 1))]

\* Body of the loop over lastStep, lines 795-821.
InterSegment(h, b, lastStep, ninter, alpha, dup) ==
  Bind(SavedLast(h, b, lastStep), LAMBDA saved :
  Bind(Iter(LAMBDA g, tinter :
              Bind(FMul(FFromNat(tinter), alpha), LAMBDA beta :
              Bind(FSub(FOne, beta), LAMBDA gamma :
                InterStep(g, b, saved, lastStep - 1, beta, gamma))),
            h, 0, ninter), LAMBDA h1 :
    IF dup THEN [h1 EXCEPT !.cur = @ + 1] ELSE h1))

\* HistData::interpolate(ninter, amplitude): the generic part of the store
\* gets the new frame count, and a time axis of that many frames at the
\* spacing of the first two.
HistDataInterpolate(h, b, newNTime) ==
  [h EXCEPT !.st[b].ntime = newNTime, !.st[b].ntimeAvail = newNTime,
            !.st[b].time = Frames(newNTime, FSub(@[2], @[1]))]

\* HistDataMD::interpolate(ninter, amplitude) on md[b], _ntime >= 2.
InterpolateMD(h0, b, ninter, amplitude) ==
  LET n == h0.st[b].ntime
  IN
  \E dup \in {RemoveDuplica(amplitude)} :
  \E newNTime \in {NewNTime(n, ninter, dup)} :
  \E h1 \in {ResizeField(h0, b, "velocities", 3 * natom * newNTime)} :
  \E h2 \in {ResizeField(h1, b, "ekin", 3 * natom * newNTime)} :
  \E h3 \in {ResizeField(h2, b, "temperature", XYZ * newNTime)} :
  \E h4 \in {ResizeField(h3, b, "pressure", XYZ * XYZ * newNTime)} :
  \E h5 \in {ResizeField(h4, b, "entropy", newNTime)} :
  \E alpha \in {FDivNat(amplitude, ninter - 1)} :
  \E h6 \in {[h5 EXCEPT !.cur = newNTime - 1,
                        !.arg = [ninter |-> ninter, amplitude |-> amplitude]]} :
  \E h7 \in {Iter(LAMBDA g, k :
                    InterSegment(g, b, n - 1 - k, ninter, alpha, dup),
                  h6, 0, n - 1)} :
  \E h8 \in {HistDataInterpolate(h7, b, newNTime)} :
    Done("interpolate", b, 0, h8, NoOrder, "ok")

Init ==
  /\ natom \in 1..MaxAtoms
  /\ tryToMap \in BOOLEAN
  /\ \E n1 \in 0..MaxT, n2 \in 0..MaxT :
       md = [id \in Ids |-> ReadStore(id, IF id = 1 THEN n1 ELSE n2, natom)]
  /\ last = [op |-> "read", b |-> 0, a |-> 0, pre |-> md, ub |-> FALSE,
             base |-> 0, r |-> NoOrder, outcome |-> "ok", arg |-> NoArg,
             wr |-> {}, res |-> <<>>, warn |-> {}]
  /\ steps = 0
  /\ fft = NoCalls

Construct(b) ==
  /\ Alive
  /\ \E n \in 0..MaxT, res \in 0..MaxReserve :
     \E h \in {[Start(md) EXCEPT
                  !.st[b] = ConstructFromHist(n, n + res, natom)]} :
       Done("construct", b, 0, h, NoOrder, "ok")

\* base += app through the MD overload.
Merge(b, a) ==
  /\ Alive
  /\ \E r \in (IF tryToMap THEN ReorderResults(b, a) ELSE {NoOrder}) :
     \E h0 \in {Start(md)} : MergeMD("merge", h0, b, a, r)

\* base += app through the overload taking a generic store: the HistData
\* part first, then the MD overload.
MergeGeneric(b, a) ==
  /\ Alive
  /\ \E r \in (IF tryToMap THEN ReorderResults(b, a) ELSE {NoOrder}) :
     \E h0 \in {HistDataPlusEq(Start(md), b, md[a].time)} :
       MergeMD("mergeGeneric", h0, b, a, r)

MergePlain(b) ==
  /\ Alive
  /\ \E k \in 0..MaxT : \E h0 \in {Start(md)} : MergeGenericPlain(h0, b, k)

\* The amplitudes 1 and 1/2.
Amplitudes == {FOne, FPow2(-1)}

NInters == {2, 3}

Interpolate(b) ==
  /\ Alive
  /\ md[b].ntime >= 2
  /\ \E ninter \in NInters, amplitude \in Amplitudes :
     \E h0 \in {Start(md)} : InterpolateMD(h0, b, ninter, amplitude)

Next ==
  \/ Construct(1)
  \/ \E a \in Ids : Merge(1, a)
  \/ \E a \in Ids : MergeGeneric(1, a)
  \/ MergePlain(1)
  \/ Interpolate(1)

Spec == Init /\ [][Next]_vars

(***************************************************************************)
(* One interpolation of a store as the reader left it, over more frames,   *)
(* more amplitudes and a finer subdivision.                                *)
(***************************************************************************)
MaxFrames == 4

\* The amplitudes 1, 1/2, 1 - 2^-40 and 1 - 2^-30.
FineAmplitudes ==
  Amplitudes \cup {FSub(FOne, FPow2(-40)), FSub(FOne, FPow2(-30))}

FineNInters == {50}

InitInterp ==
  /\ natom \in 1..MaxAtoms
  /\ tryToMap \in BOOLEAN
  /\ \E n \in 2..MaxFrames :
       md = [id \in Ids |-> ReadStore(id, IF id = 1 THEN n ELSE 0, natom)]
  /\ last = [op |-> "read", b |-> 0, a |-> 0, pre |-> md, ub |-> FALSE,
             base |-> 0, r |-> NoOrder, outcome |-> "ok", arg |-> NoArg,
             wr |-> {}, res |-> <<>>, warn |-> {}]
  /\ steps = 0
  /\ fft = NoCalls

InterpolateOnce(b) ==
  /\ steps = 0
  /\ \E ninter \in NInters, amplitude \in FineAmplitudes :
     \E h0 \in {Start(md)} : InterpolateMD(h0, b, ninter, amplitude)

InterpolateFine(b) ==
  /\ steps = 0
  /\ md[b].ntime = 2
  /\ natom = 1
  /\ \E ninter \in FineNInters, amplitude \in FineAmplitudes :
     \E h0 \in {Start(md)} : InterpolateMD(h0, b, ninter, amplitude)

NextInterp == InterpolateOnce(1) \/ InterpolateFine(1)

SpecInterp == InitInterp /\ [][NextInterp]_vars

(***************************************************************************)
(* Frame lookups and PDOS requests on a store as the reader left it.       *)
(***************************************************************************)

\* The w entries of frame time of series f, as the caller reads them.
\* getVel hands out &_velocities[time*3*_natom]; the entries are what the
\* caller finds behind that pointer.
ReadFrame(h, b, f, w, time) ==
  LET v == h.st[b][f]
  IN [h EXCEPT
        !.res = [i \in 1..w |->
                   IF w * time + i <= Len(v) THEN v[w * time + i]
                   ELSE Garbage],
        !.ub = @ \/ w * (time + 1) > Len(v)]

\* The body shared by getVel, getEkin, getTemperature and getPressure.
Lookup(b, f, w, time) ==
  /\ Alive
  /\ \E h0 \in {[Start(md) EXCEPT !.arg = [field |-> f, time |-> time]]} :
       IF time > md[b].ntime
         THEN Done("get", b, 0, h0, NoOrder, "throw")
         ELSE \E h1 \in {ReadFrame(h0, b, f, w, time)} :
              \E out \in Outcomes(h1) : Done("get", b, 0, h1, NoOrder, out)

Times == 0..MaxT + 1

GetVel(b) == \E time \in Times : Lookup(b, "velocities", 3 * natom, time)

GetEkin(b) == \E time \in Times : Lookup(b, "ekin", 1, time)

GetTemperature(b) == \E time \in Times : Lookup(b, "temperature", 1, time)

GetPressure(b) == \E time \in Times : Lookup(b, "pressure", 1, time)

\* The tsmear values of the model: only the sign of tsmear is tested.
TSmears == {-1, 0, 1}

\* The factor of lines 524 and 599 that brings the smearing to the scale
\* of the frequency axis: a positive number.
SmearScale == 2

\* What the token tsmear is when the command does not give it: 0.05*T,
\* positive for the temperatures of the model.
DefaultSmear == 1

\* getPDOS(tbegin, tend, tsmear) in a build with or without HAVE_FFTW3:
\* the transform of the VACF, smeared when tsmear > 0 and raw otherwise.
GetPDOSOutcome(fftw3, tsmear) ==
  IF ~fftw3 THEN [outcome |-> "capability", res |-> <<>>]
  ELSE [outcome |-> "ok",
        res |-> <<IF tsmear > 0 THEN "smeared" ELSE "raw">>]

\* The branches "pdos" and "thermo" of plot: the token, its validation and
\* the call of getPDOS.
PlotOutcome(fftw3, given, tsmear) ==
  LET smearing == IF given THEN tsmear ELSE DefaultSmear
  IN IF smearing < 0 THEN [outcome |-> "validation", res |-> <<>>]
     ELSE GetPDOSOutcome(fftw3, smearing * SmearScale)

Request(b, via, fftw3, given, tsmear, o) ==
  /\ Alive
  /\ \E h0 \in {[Start(md) EXCEPT
                   !.arg = [via |-> via, fftw3 |-> fftw3, given |-> given,
                            tsmear |-> tsmear],
                   !.res = o.res]} :
       Done("pdos", b, 0, h0, NoOrder, o.outcome)

PlotPDOS(b) ==
  \E fftw3 \in BOOLEAN, given \in BOOLEAN, tsmear \in TSmears :
    Request(b, "plot pdos", fftw3, given, tsmear,
            PlotOutcome(fftw3, given, tsmear))

PlotThermo(b) ==
  \E fftw3 \in BOOLEAN, given \in BOOLEAN, tsmear \in TSmears :
    Request(b, "plot thermo", fftw3, given, tsmear,
            PlotOutcome(fftw3, given, tsmear))

GetPDOS(b) ==
  \E fftw3 \in BOOLEAN, tsmear \in TSmears :
    Request(b, "getPDOS", fftw3, TRUE, tsmear, GetPDOSOutcome(fftw3, tsmear))

NextQuery ==
  \/ GetVel(1)
  \/ GetEkin(1)
  \/ GetTemperature(1)
  \/ GetPressure(1)
  \/ PlotPDOS(1)
  \/ PlotThermo(1)
  \/ GetPDOS(1)

SpecQuery == Init /\ [][NextQuery]_vars

(***************************************************************************)
(* Construction and merges only.                                           *)
(***************************************************************************)
NextMerge ==
  \/ Construct(1)
  \/ \E a \in Ids : Merge(1, a)
  \/ \E a \in Ids : MergeGeneric(1, a)
  \/ MergePlain(1)

SpecMerge == Init /\ [][NextMerge]_vars

(***************************************************************************)
(* Merges of stores read from trajectories with different timesteps and    *)
(* with the same or different temperatures and pressures.                  *)
(***************************************************************************)

\* The timesteps 100, 100 + 2^-14, 2^-21 and 2^-22.
Timesteps ==
  {DefaultDt, FAdd(DefaultDt, FPow2(-14)), FPow2(-21), FPow2(-22)}

ReadStoreDt(id, n, na, dt) ==
  [ReadStore(id, n, na) EXCEPT !.time = Frames(n, dt)]

\* Store 2 holds the trajectory 2, or a second copy of the trajectory 1.
InitWarn ==
  /\ natom = 1
  /\ tryToMap = FALSE
  /\ \E n1 \in 0..MaxT, n2 \in 0..MaxT, d1 \in Timesteps, d2 \in Timesteps,
        src \in Ids :
       md = [id \in Ids |->
               IF id = 1 THEN ReadStoreDt(1, n1, natom, d1)
               ELSE ReadStoreDt(src, n2, natom, d2)]
  /\ last = [op |-> "read", b |-> 0, a |-> 0, pre |-> md, ub |-> FALSE,
             base |-> 0, r |-> NoOrder, outcome |-> "ok", arg |-> NoArg,
             wr |-> {}, res |-> <<>>, warn |-> {}]
  /\ steps = 0
  /\ fft = NoCalls

NextWarn ==
  \/ \E a \in Ids : Merge(1, a)
  \/ \E a \in Ids : MergeGeneric(1, a)

SpecWarn == InitWarn /\ [][NextWarn]_vars

(***************************************************************************)
(* HistDataMD::getVACF: the aggregation of the autocorrelation of the      *)
(* 3*natom velocity channels over the species.                             *)
(***************************************************************************)

\* What HistData::acf returns for a window: ntau lags of 3*natom channels.
\* Channel 0 of atom i holds k[i]/scale, channel 1 zero, channel 2 the lag.
FullVacf(k, scale, ntau) ==
  [q \in 1..ntau * 3 * natom |->
     LET itau  == (q - 1) \div (3 * natom)
         iatom == ((q - 1) % (3 * natom)) \div 3
         c     == (q - 1) % 3
     IN IF c = 0 THEN FDivNat(FFromNat(k[iatom + 1]), scale)
        ELSE IF c = 1 THEN FZero
        ELSE FFromNat(itau)]

\* Lines 660-663: the number of atoms of each species, all atoms at 0.
CountTypes(typat, ntypes) ==
  [t \in 0..ntypes |->
     IF t = 0 THEN natom ELSE Cardinality({i \in 1..natom : typat[i] = t})]

\* A loop body that leaves the third channel out of the species sums.
AccStepTwoChannels(acc, j, fullvacf, typat, shift) ==
  Bind(fullvacf[shift + j + 1], LAMBDA x :
    IF j % 3 = 2 THEN [acc EXCEPT ![0] = FAdd(@, x)]
    ELSE [acc EXCEPT ![0] = FAdd(@, x),
                     ![typat[(j \div 3) + 1]] = FAdd(@, x)])

\* Lines 672-673 for j = iatom*3 + c.
AccStep(acc, j, fullvacf, typat, shift) ==
  Bind(fullvacf[shift + j + 1], LAMBDA x :
    [acc EXCEPT ![0] = FAdd(@, x),
                ![typat[(j \div 3) + 1]] = FAdd(@, x)])

\* Lines 667-676: vacf_tmp[itau].
VacfTau(fullvacf, typat, ntypes, itau) ==
  Iter(LAMBDA acc, j : AccStep(acc, j, fullvacf, typat, itau * 3 * natom),
       [t \in 0..ntypes |-> FZero], 0, 3 * natom)

\* Line 685 without the unit factor conversion2nm2ps2, the same for every
\* entry: the accumulator over three times the number of atoms, 0/0 for a
\* species without atoms.
Normalized(x, count) ==
  IF count = 0 THEN "NaN" ELSE FDivNat(x, 3 * count)

\* getVACF(tbegin, tend) for the autocorrelation fullvacf.
VacfResult(fullvacf, typat, ntypes, ntau) ==
  Bind2([itau \in 0..ntau - 1 |-> VacfTau(fullvacf, typat, ntypes, itau)],
        CountTypes(typat, ntypes),
        LAMBDA tmp, count :
          [tmp   |-> tmp,
           count |-> count,
           vacf  |-> [t \in 0..ntypes |->
                       [itau \in 0..ntau - 1 |->
                          Normalized(tmp[itau][t], count[t])]]])

NTypes == {1, 2}

Scales == {1, 10}

Numerators == {1, 4}

InitVACF ==
  /\ natom \in 1..MaxAtoms
  /\ tryToMap = FALSE
  /\ \E n \in 1..MaxT :
       md = [id \in Ids |-> ReadStore(id, IF id = 1 THEN n ELSE 0, natom)]
  /\ last = [op |-> "read", b |-> 0, a |-> 0, pre |-> md, ub |-> FALSE,
             base |-> 0, r |-> NoOrder, outcome |-> "ok", arg |-> NoArg,
             wr |-> {}, res |-> <<>>, warn |-> {}]
  /\ steps = 0
  /\ fft = NoCalls

GetVACF(b) ==
  /\ steps = 0
  /\ \E tbegin \in 0..md[b].ntime, tend \in 0..md[b].ntime :
       /\ tbegin < tend
       /\ \E ntau \in 1..tend - tbegin, ntypes \in NTypes, scale \in Scales :
          \E typat \in [1..natom -> 1..ntypes], k \in [1..natom -> Numerators] :
          \E h0 \in {[Start(md) EXCEPT
                        !.arg = [tbegin |-> tbegin, tend |-> tend,
                                 ntau |-> ntau, ntypes |-> ntypes,
                                 typat |-> typat, k |-> k, scale |-> scale],
                        !.res = VacfResult(FullVacf(k, scale, ntau),
                                           typat, ntypes, ntau)]} :
            Done("vacf", b, 0, h0, NoOrder, "ok")

NextVACF == GetVACF(1)

SpecVACF == InitVACF /\ [][NextVACF]_vars

(***************************************************************************)
(* Failures in the analysis calls printThermo, getVACF, getPDOS,           *)
(* computeThermoFunctionHA(tbegin, tend, omegaMax) and plot.  None of them *)
(* writes to the store.                                                    *)
(***************************************************************************)

\* HistData::checkTimes(tbegin, tend) accepts the windows with
\* tbegin < tend <= ntime and raises for every other.
CheckTimes(s, tbegin, tend) == tbegin < tend /\ tend <= s.ntime

\* How a call went: fail is the failure that arose in it ("none" when none
\* did), thrown whether that failure left the call as an exception,
\* integrated whether the integration of the PDOS was run, ub whether the
\* call read outside a vector.
Run(fail, thrown, integrated, ub) ==
  [fail |-> fail, thrown |-> thrown, integrated |-> integrated, ub |-> ub]

\* getVACF(tbegin, tend), lines 643-656: HistData::acf raises for a window
\* of length 0 and the exception is annotated and thrown again; a window
\* that does not lie inside the velocities is read all the same.
VACFRun(s, tbegin, tend) ==
  IF tbegin = tend THEN Run("acf", TRUE, FALSE, FALSE)
  ELSE IF tbegin < tend /\ 3 * natom * tend <= Len(s.velocities)
    THEN Run("none", FALSE, FALSE, FALSE)
    ELSE Run("none", FALSE, FALSE, TRUE)

\* getPDOS(tbegin, tend, tsmear), lines 692-698: without HAVE_FFTW3 it
\* raises at once, with it the failure of getVACF passes through.
PDOSRun(s, tbegin, tend, fftw3) ==
  IF ~fftw3 THEN Run("capability", TRUE, FALSE, FALSE)
  ELSE VACFRun(s, tbegin, tend)

\* printThermo(tbegin, tend, out), lines 316-322.
PrintRun(s, tbegin, tend) ==
  IF ~CheckTimes(s, tbegin, tend) THEN Run("range", TRUE, FALSE, FALSE)
  ELSE Run("none", FALSE, FALSE, FALSE)

\* computeThermoFunctionHA(tbegin, tend, omegaMax), lines 878-901: the
\* handler of lines 891-893 annotates the exception of getPDOS and does not
\* throw it again, so the integration runs on the empty pdos, where
\* nmax - 1 wraps around and pdos[0] is read from an empty vector.
ThermoRun(s, tbegin, tend, fftw3) ==
  IF ~CheckTimes(s, tbegin, tend) THEN Run("range", TRUE, FALSE, FALSE)
  ELSE LET p == PDOSRun(s, tbegin, tend, fftw3)
       IN IF p.thrown THEN Run(p.fail, FALSE, TRUE, TRUE)
          ELSE Run("none", FALSE, TRUE, p.ub)

\* plot(tbegin, tend, stream, ...) for the functions vacf, pdos and thermo:
\* nothing in plot catches what getVACF, the test of the smearing or
\* getPDOS throw.
PlotRun(s, function, tbegin, tend, fftw3, given, tsmear) ==
  IF function = "vacf" THEN VACFRun(s, tbegin, tend)
  ELSE IF (IF given THEN tsmear ELSE DefaultSmear) < 0
    THEN Run("tsmear", TRUE, FALSE, FALSE)
    ELSE LET p == PDOSRun(s, tbegin, tend, fftw3)
         IN IF p.thrown THEN p ELSE Run("none", FALSE, TRUE, p.ub)

\* The call op on md[b], the first call on the stores as read, going as
\* run says: the exception reaches the caller, or the call returns (or
\* dies, after a read outside a vector).
Call(b, op, args, run) ==
  /\ steps = 0
  /\ \E out \in (IF run.thrown THEN {"throw"}
                 ELSE IF run.ub THEN {"ok", "crash"} ELSE {"ok"}) :
     \E h0 \in {[Start(md) EXCEPT
                   !.arg = [op |-> op, args |-> args, fail |-> run.fail,
                            integrated |-> run.integrated],
                   !.ub = run.ub,
                   !.res = IF out = "ok" /\ run.integrated
                             THEN <<"F", "E", "C", "S">> ELSE <<>>]} :
       Done("analysis", b, 0, h0, NoOrder, out)

PrintThermo(b) ==
  \E tbegin \in Times, tend \in Times :
    Call(b, "printThermo", <<tbegin, tend>>, PrintRun(md[b], tbegin, tend))

VACFCall(b) ==
  \E tbegin \in Times, tend \in Times :
    Call(b, "getVACF", <<tbegin, tend>>, VACFRun(md[b], tbegin, tend))

PDOSCall(b) ==
  \E tbegin \in Times, tend \in Times, fftw3 \in BOOLEAN :
    Call(b, "getPDOS", <<tbegin, tend, fftw3>>,
         PDOSRun(md[b], tbegin, tend, fftw3))

ThermoHA(b) ==
  \E tbegin \in Times, tend \in Times, fftw3 \in BOOLEAN :
    Call(b, "computeThermoFunctionHA", <<tbegin, tend, fftw3>>,
         ThermoRun(md[b], tbegin, tend, fftw3))

PlotFunctions == {"vacf", "pdos", "thermo"}

Plot(b) ==
  \E function \in PlotFunctions, tbegin \in Times, tend \in Times :
  \E fftw3 \in (IF function = "vacf" THEN {TRUE} ELSE BOOLEAN) :
  \E given \in (IF function = "vacf" THEN {FALSE} ELSE BOOLEAN) :
  \E tsmear \in (IF given THEN TSmears ELSE {0}) :
    Call(b, "plot", <<function, tbegin, tend, fftw3, given, tsmear>>,
         PlotRun(md[b], function, tbegin, tend, fftw3, given, tsmear))

NextAnalysis ==
  \/ PrintThermo(1)
  \/ VACFCall(1)
  \/ PDOSCall(1)
  \/ ThermoHA(1)
  \/ Plot(1)

SpecAnalysis == Init /\ [][NextAnalysis]_vars

(***************************************************************************)
(* HistDataMD::computeThermoFunctionHA(pdos, T, omegaMax): the PDOS is     *)
(* renormalized in place up to the cutoff and integrated against the       *)
(* harmonic kernels.                                                       *)
(***************************************************************************)
MaxFreq == 3

\* phys::atu2fs*1e-3, the atomic unit of time in ps: 2.4189e-5.
AtuToPs == FDivNat(FDivNat(FFromNat(24189), 10000), 100000)

\* phys::THz2Ha * phys::Ha2eV, 1 THz in eV: 4.136e-3.
THzToEv == FDivNat(FDivNat(FFromNat(4136), 1000), 1000)

\* phys::kB / phys::eV, the Boltzmann constant in eV/K: 8.617e-5.
KbInEv == FDivNat(FDivNat(FFromNat(8617), 10000), 10000)

\* Line 907: dtion, in ps.
Dtion(s) ==
  FMul(AtuToPs,
       IF Len(s.time) > 1 THEN FSub(s.time[2], s.time[1]) ELSE FFromNat(100))

\* Line 908: domega = 1./(2.*dtion*nfreq), in THz.
Domega(dtion, nfreq) ==
  FDiv(FOne, FMul(FMul(FFromNat(2), dtion), FFromNat(nfreq)))

\* Line 914, with cut = unsigned(omegaMax/domega) when omegaMax >= 0.
NMax(nfreq, negative, cut) ==
  IF negative THEN nfreq ELSE Min(cut, nfreq)

\* Lines 917-919: norme, for nmax >= 1.
Norme(pdos, nmax, domega) ==
  Iter(LAMBDA norme, i :
         FAdd(norme,
              FMul(FMul(FAdd(pdos[i + 1], pdos[i + 2]), FPow2(-1)), domega)),
       FZero, 0, nmax - 1)

\* A renormalization that leaves out the last bin below the cutoff.
RenormalizeShort(pdos, nmax, norme) ==
  [i \in 1..Len(pdos) |->
     IF i <= nmax - 1 THEN FDiv(pdos[i], norme) ELSE pdos[i]]

\* Lines 920-921: pdos[iomega] /= norme for iomega < nmax, norme # 0.
Renormalize(pdos, nmax, norme) ==
  [i \in 1..Len(pdos) |->
     IF i <= nmax THEN FDiv(pdos[i], norme) ELSE pdos[i]]

\* A double x # 0 lies in [2^(Magnitude(x)-1), 2^Magnitude(x)).
Magnitude(x) == x.e + BBitLen(x.m)

\* The product x, computed without bounds on the exponent, is infinite as
\* a double, or rounds to zero.
TooLarge(x) == ~FIsZero(x) /\ Magnitude(x) > 1024

Vanishes(x) == FIsZero(x) \/ Magnitude(x) < -1074

\* pdos[0] / 0 for pdos[0] > 0.
PosInf == [s |-> 0, e |-> 0, m |-> <<0>>]

\* Line 911: omega[iomega], in eV.
Omega(iomega, domega) ==
  FMul(FMul(THzToEv, FAdd(FFromNat(iomega), FPow2(-1))), domega)

\* Lines 928-929 and 934: argument = omega[iomega]*inv_2kBT.
Argument(iomega, domega, T) ==
  FMul(Omega(iomega, domega), FDiv(FPow2(-1), FMul(KbInEv, T)))

\* sinh(x) is infinite as a double from x = 710.48 on (x >= 0).
SinhOverflows(x) ==
  IF Vanishes(x) \/ Magnitude(x) < 1 THEN FALSE
  ELSE IF Magnitude(x) > 11 THEN TRUE
  ELSE FLess(FFromNat(711), x)

\* The terms of lines 936-942 for one bin, each as a finite number, an
\* infinity or not a number ("zero" is the empty sum).  With sinh(x)
\* infinite, 1/tanh(x) is 1 and log(2*sinh(x)) infinite, so the term of F
\* is infinite, that of S is x - inf, and that of C is x*x/inf, or inf/inf
\* when x*x is infinite too.  For x so small that x*x rounds to zero,
\* sinh(x) is x and the term of C is 0/0.
Terms(x) ==
  IF SinhOverflows(x)
    THEN [F |-> "inf", E |-> "finite", S |-> "-inf",
          C |-> IF TooLarge(FMul(x, x)) THEN "nan" ELSE "finite"]
    ELSE [F |-> "finite", E |-> "finite", S |-> "finite",
          C |-> IF Vanishes(FMul(x, x)) THEN "nan" ELSE "finite"]

\* x + y for two such terms.
Plus(x, y) ==
  IF x = "nan" \/ y = "nan" \/ {x, y} = {"inf", "-inf"} THEN "nan"
  ELSE IF "inf" \in {x, y} THEN "inf"
  ELSE IF "-inf" \in {x, y} THEN "-inf"
  ELSE IF x = "zero" THEN y
  ELSE IF y = "zero" THEN x
  ELSE "finite"

\* Lines 924-947: F, E, C and S summed over the bins below nmax - 1; the
\* factors 3*kBT, 3*0.5 and 3. are positive numbers.
Integrate(nmax, domega, T) ==
  Iter(LAMBDA acc, i :
         Bind(Terms(Argument(i, domega, T)), LAMBDA t :
           [F |-> Plus(acc.F, t.F), E |-> Plus(acc.E, t.E),
            C |-> Plus(acc.C, t.C), S |-> Plus(acc.S, t.S)]),
       [F |-> "zero", E |-> "zero", C |-> "zero", S |-> "zero"],
       0, nmax - 1)

\* computeThermoFunctionHA(pdos, T, omegaMax) on store s: the pdos as the
\* call leaves it and the tuple it returns.  For nmax = 0 the bound
\* nmax - 1 of the loops wraps around and pdos is read past its end; for
\* nmax = 1 norme is 0.
ThermoResult(s, pdos, T, negative, cut) ==
  Bind2(Domega(Dtion(s), Len(pdos)), NMax(Len(pdos), negative, cut),
        LAMBDA domega, nmax :
    IF nmax = 0
      THEN [pdos |-> pdos, domega |-> domega, nmax |-> nmax, ub |-> TRUE,
            thermo |-> [F |-> "nan", E |-> "nan", C |-> "nan", S |-> "nan"]]
    ELSE IF nmax = 1
      THEN [pdos |-> [pdos EXCEPT ![1] = PosInf], domega |-> domega,
            nmax |-> nmax, ub |-> FALSE,
            thermo |-> Integrate(nmax, domega, T)]
    ELSE [pdos |-> Renormalize(pdos, nmax, Norme(pdos, nmax, domega)),
          domega |-> domega, nmax |-> nmax, ub |-> FALSE,
          thermo |-> Integrate(nmax, domega, T)])

\* The values of a PDOS.
PdosValues == {FFromNat(1), FFromNat(2), FFromNat(3)}

\* The temperatures 2^-1000, 2^-7, 300 and 2^600, in K.
Temperatures == {FPow2(-1000), FPow2(-7), FFromNat(300), FPow2(600)}

\* The timesteps 100 and 128.
ThermoTimesteps == {DefaultDt, FPow2(7)}

InitThermo ==
  /\ natom = 1
  /\ tryToMap = FALSE
  /\ \E n \in 1..MaxT, d \in ThermoTimesteps :
       md = [id \in Ids |->
               IF id = 1 THEN ReadStoreDt(1, n, natom, d)
               ELSE ReadStore(2, 0, natom)]
  /\ last = [op |-> "read", b |-> 0, a |-> 0, pre |-> md, ub |-> FALSE,
             base |-> 0, r |-> NoOrder, outcome |-> "ok", arg |-> NoArg,
             wr |-> {}, res |-> <<>>, warn |-> {}]
  /\ steps = 0
  /\ fft = NoCalls

\* computeThermoFunctionHA(pdos, T, omegaMax) with omegaMax < 0.
ThermoFull(b) ==
  /\ steps = 0
  /\ \E nfreq \in 2..MaxFreq, T \in Temperatures :
     \E pdos \in [1..nfreq -> PdosValues] :
     \E h0 \in {[Start(md) EXCEPT
                   !.arg = [pdos |-> pdos, T |-> T, negative |-> TRUE],
                   !.res = ThermoResult(md[b], pdos, T, TRUE, 0)]} :
       Done("thermo", b, 0, h0, NoOrder, "ok")

\* computeThermoFunctionHA(pdos, T, omegaMax) with omegaMax >= 0.
ThermoCut(b) ==
  /\ steps = 0
  /\ \E nfreq \in 2..MaxFreq, T \in Temperatures :
     \E pdos \in [1..nfreq -> PdosValues], cut \in 0..nfreq + 1 :
     \E r \in {ThermoResult(md[b], pdos, T, FALSE, cut)} :
     \E h0 \in {[Start(md) EXCEPT
                   !.arg = [pdos |-> pdos, T |-> T, negative |-> FALSE],
                   !.res = r, !.ub = r.ub]} :
     \E out \in Outcomes(h0) : Done("thermo", b, 0, h0, NoOrder, out)

NextThermo == ThermoFull(1) \/ ThermoCut(1)

SpecThermo == InitThermo /\ [][NextThermo]_vars

\* Thread t leaves statement from for statement to.
Goto(t, from, to, owner) ==
  /\ fft.pc[t] = from
  /\ fft' = [fft EXCEPT !.pc[t] = to, !.owner = owner]
  /\ UNCHANGED <<natom, tryToMap, md, last, steps>>

\* Line 698: thread t calls getPDOS and starts with the VACF and the copy
\* into fft_in (698-719).
EnterGetPDOS(t) == Goto(t, "idle", "copy", fft.owner)

\* Lines 721-723: after the copy, fftw_plan_with_nthreads when the build
\* has it, else the entry of the critical section.
CopyDone(t) ==
  Goto(t, "copy", IF fft.planner THEN "fftw_plan_with_nthreads" ELSE "enter",
       fft.owner)

\* Line 722 has returned.
PlanWithNthreadsDone(t) ==
  Goto(t, "fftw_plan_with_nthreads", "enter", fft.owner)

\* Lines 725-729: the critical section pdos_fft is free and t enters it
\* to call fftw_plan_many_r2r.
EnterPlan(t) == fft.owner = 0 /\ Goto(t, "enter", "fftw_plan_many_r2r", t)

\* Lines 730-732: the plan is made, t leaves the critical section for
\* fftw_execute.
LeavePlan(t) == Goto(t, "fftw_plan_many_r2r", "fftw_execute", 0)

\* Lines 734-763: the transform is done, smearing or copy of fft_out.
ExecuteDone(t) == Goto(t, "fftw_execute", "smear", fft.owner)

\* Line 765: t has written its spectrum and waits for the critical
\* section.
SmearDone(t) == Goto(t, "smear", "enter_destroy", fft.owner)

\* Lines 765-767: the critical section is free and t enters it to call
\* fftw_destroy_plan.
EnterDestroy(t) ==
  fft.owner = 0 /\ Goto(t, "enter_destroy", "fftw_destroy_plan", t)

\* Lines 768-771: the plan is destroyed, t leaves the critical section and
\* frees the buffers.
LeaveDestroy(t) == Goto(t, "fftw_destroy_plan", "fftw_free", 0)

\* Line 773: t returns the spectrum (and may call again).
Return(t) == Goto(t, "fftw_free", "idle", fft.owner)

InitPlan ==
  /\ natom = 1
  /\ tryToMap = FALSE
  /\ md = [id \in Ids |-> ReadStore(id, MaxT, natom)]
  /\ last = [op |-> "read", b |-> 0, a |-> 0, pre |-> md, ub |-> FALSE,
             base |-> 0, r |-> NoOrder, outcome |-> "ok", arg |-> NoArg,
             wr |-> {}, res |-> <<>>, warn |-> {}]
  /\ steps = 0
  /\ \E planner \in BOOLEAN : fft = [NoCalls EXCEPT !.planner = planner]

NextPlan ==
  \E t \in Threads :
    \/ EnterGetPDOS(t)
    \/ CopyDone(t)
    \/ PlanWithNthreadsDone(t)
    \/ EnterPlan(t)
    \/ LeavePlan(t)
    \/ ExecuteDone(t)
    \/ SmearDone(t)
    \/ EnterDestroy(t)
    \/ LeaveDestroy(t)
    \/ Return(t)

SpecPlan == InitPlan /\ [][NextPlan]_vars

\* Merges in both directions between the two stores.
InitBoth ==
  /\ natom \in 1..2
  /\ tryToMap = FALSE
  /\ \E n1 \in 0..MaxT, n2 \in 0..MaxT :
       md = [id \in Ids |-> ReadStore(id, IF id = 1 THEN n1 ELSE n2, natom)]
  /\ last = [op |-> "read", b |-> 0, a |-> 0, pre |-> md, ub |-> FALSE,
             base |-> 0, r |-> NoOrder, outcome |-> "ok", arg |-> NoArg,
             wr |-> {}, res |-> <<>>, warn |-> {}]
  /\ steps = 0
  /\ fft = NoCalls

NextBoth ==
  \/ \E b \in Ids : \E a \in Ids \ {b} : Merge(b, a)
  \/ \E b \in Ids : \E a \in Ids \ {b} : MergeGeneric(b, a)

SpecBoth == InitBoth /\ [][NextBoth]_vars

(***************************************************************************)
(* Assignment operators.                                                   *)
(***************************************************************************)

\* A store with the two _mdtemp values the reader found in the file.
StoreWithMdtemp(id, n, na) ==
  [f \in DOMAIN ReadStore(id, n, na) \cup {"mdtemp"} |->
     IF f = "mdtemp" THEN <<FFromNat(300 + id), FFromNat(400 + id)>>
     ELSE ReadStore(id, n, na)[f]]

\* HistDataMD(const HistData&) for a generic store of n frames and capacity
\* avail: _mdtemp{0} and the series zero-filled (lines 60-73).
ConstructedFromHist(n, avail, na) ==
  [f \in DOMAIN ConstructFromHist(n, avail, na) \cup {"mdtemp"} |->
     IF f = "mdtemp" THEN <<FZero, FZero>>
     ELSE ConstructFromHist(n, avail, na)[f]]

\* operator=(const HistData&) and operator=(HistData&&) on the store s
\* (lines 122-142): the generic part is assigned, every series is resized
\* to the capacity, which keeps the entries it already has; _mdtemp is not
\* assigned.
AssignFromHist(s, n, avail, na) ==
  [s EXCEPT !.ntime = n, !.ntimeAvail = avail,
            !.time = Frames(n, DefaultDt),
            !.ekin = Resize(@, avail),
            !.velocities = Resize(@, XYZ * na * avail),
            !.temperature = Resize(@, avail),
            !.pressure = Resize(@, avail),
            !.entropy = Resize(@, avail)]

\* operator=(const HistDataMD&) and operator=(HistDataMD&&) on the store s
\* (lines 144-164): the generic part and the five series are assigned;
\* _mdtemp is not.
AssignFromMD(s, src) == [src EXCEPT !.mdtemp = s.mdtemp]

InitAssign ==
  /\ natom \in 1..2
  /\ tryToMap = FALSE
  /\ \E n1 \in 0..MaxT, n2 \in 0..MaxT :
       md = [id \in Ids |->
               StoreWithMdtemp(id, IF id = 1 THEN n1 ELSE n2, natom)]
  /\ last = [op |-> "read", b |-> 0, a |-> 0, pre |-> md, ub |-> FALSE,
             base |-> 0, r |-> NoOrder, outcome |-> "ok", arg |-> NoArg,
             wr |-> {}, res |-> <<>>, warn |-> {}]
  /\ steps = 0
  /\ fft = NoCalls

\* md[b] = hist for a generic store hist.
AssignHist(b) ==
  /\ steps = 0
  /\ \E n \in 0..MaxT, res \in 0..MaxReserve :
     \E h \in {[Start(md) EXCEPT
                  !.st[b] = AssignFromHist(@, n, n + res, natom),
                  !.arg = [n |-> n, avail |-> n + res]]} :
       Done("assignHist", b, 0, h, NoOrder, "ok")

\* md[b] = md[a].
AssignMD(b, a) ==
  /\ steps = 0
  /\ \E h \in {[Start(md) EXCEPT !.st[b] = AssignFromMD(@, md[a])]} :
       Done("assignMD", b, a, h, NoOrder, "ok")

NextAssign ==
  \/ \E b \in Ids : AssignHist(b)
  \/ \E b \in Ids : \E a \in Ids \ {b} : AssignMD(b, a)

SpecAssign == InitAssign /\ [][NextAssign]_vars

(***************************************************************************)
(* Velocities, temperature and pressure from the positions.                *)
(***************************************************************************)

\* The double 1e21 = 5^21 * 2^21 (exact).
TenTo21 == [s |-> 0, e |-> 21, m |-> <<12021, 13752, 6884, 108>>]

\* phys::Ha, the Hartree in J: the double 4.3597447e-18.
Ha == [s |-> 0, e |-> -109, m |-> <<2479, 14246, 6303, 643>>]

\* phys::kB, the Boltzmann constant in J/K: the double 1.380649e-23.
Kb == [s |-> 0, e |-> -126, m |-> <<6431, 5470, 923, 267>>]

\* phys::b2A, the Bohr radius in Angstrom: the double 0.52917721.
B2A == [s |-> 0, e |-> -53, m |-> <<8701, 11614, 12368, 1083>>]

\* phys::amu_emass, the atomic mass unit in electron masses: the double
\* 1822.888.
AmuEmass == [s |-> 0, e |-> -40, m |-> <<3801, 4063, 11829, 455>>]

\* _typat: the species of atom iatom (from 1), two species in turn.
Typat(iatom) == 1 + ((iatom - 1) % 2)

\* MendeTable.mass[_znucl[_typat[iatom]-1]]*phys::amu_emass for the species
\* H (1.008) and O (15.999).
Mass(iatom) ==
  FMul(IF Typat(iatom) = 1 THEN FDivNat(FFromNat(1008), 1000)
       ELSE FDivNat(FFromNat(15999), 1000),
       AmuEmass)

\* The positions of trajectory seed: entry c of frame t is
\* seed*t*t + t + 10*c, so that the three differences of a frame differ.
Xcart(seed, n, na) ==
  [i \in 1..3 * na * n |->
     Bind2((i - 1) \div (3 * na), (i - 1) % (3 * na), LAMBDA t, c :
       FFromNat(seed * t * t + t + 10 * c))]

\* _stress, 6 entries per frame, in Ha/bohr^3 scaled by 2^-14.
Stress(n) == [i \in 1..6 * n |-> FMul(FFromNat(i), FPow2(-14))]

\* _rprimd, 9 entries per frame: a cubic cell of side 10 + t.
Rprimd(n) ==
  [i \in 1..9 * n |->
     IF ((i - 1) % 9) \in {0, 4, 8} THEN FFromNat(10 + (i - 1) \div 9)
     ELSE FZero]

\* A store as the reader holds it while it loads the frames: the MD series
\* sized to n frames, with the positions, stresses and cells of the
\* generic store.
LoadedStore(id, n, na, seed) ==
  [f \in DOMAIN ReadStore(id, n, na) \cup {"xcart", "stress", "rprimd"} |->
     IF f = "xcart" THEN Xcart(seed, n, na)
     ELSE IF f = "stress" THEN Stress(n)
     ELSE IF f = "rprimd" THEN Rprimd(n)
     ELSE ReadStore(id, n, na)[f]]

\* geometry::det(&_rprimd[itime*9]): the determinant of the 3x3 matrix m
\* stored by rows from offset o.
Det(m, o) ==
  FAdd(FSub(FMul(m[o + 1], FSub(FMul(m[o + 5], m[o + 9]),
                                FMul(m[o + 6], m[o + 8]))),
            FMul(m[o + 2], FSub(FMul(m[o + 4], m[o + 9]),
                                FMul(m[o + 6], m[o + 7])))),
       FMul(m[o + 3], FSub(FMul(m[o + 4], m[o + 8]),
                           FMul(m[o + 5], m[o + 7]))))

\* Line 851: factorT.
FactorT == FDiv(Ha, FMul(FMul(FFromNat(3), Kb), FFromNat(natom)))

\* Line 852: factorP.
FactorP == FDiv(Kb, Ha)

\* Lines 861-864: v2 of atom iatom in frame itime of the velocities vel.
V2(vel, itime, iatom) ==
  Iter(LAMBDA v2, c :
         Bind(vel[itime * natom * 3 + (iatom - 1) * 3 + c + 1], LAMBDA v :
           FAdd(v2, FMul(v, v))),
       FZero, 0, 3)

\* A temperature taken from the recorded kinetic energy.
TemperatureFromEkin(s, itime) == FMul(s.ekin[itime + 1], FactorT)

\* Lines 858-867: _temperature[itime], from the velocities of the frame.
Temperature(s, itime) ==
  FMul(Iter(LAMBDA sum, iatom :
              FAdd(sum, FMul(Mass(iatom + 1),
                             V2(s.velocities, itime, iatom + 1))),
            FZero, 0, natom),
       FactorT)

\* Lines 870-872: _pressure[itime] for the temperature T.
Pressure(s, itime, T) ==
  FMul(FMul(FDiv(Ha, FMul(FMul(B2A, B2A), B2A)), TenTo21),
       FAdd(FDivNat(FNeg(FAdd(FAdd(s.stress[itime * 6 + 1],
                                   s.stress[itime * 6 + 2]),
                              s.stress[itime * 6 + 3])), 3),
            FMul(FMul(FDiv(FFromNat(natom), Det(s.rprimd, itime * 9)),
                      FactorP), T)))

\* computePressureTemperature(itime) on store b; res is the list of the
\* entries written, in the order of the writes.
ComputePressureTemperature(h, b, itime) ==
  Bind(Temperature(h.st[b], itime), LAMBDA T :
    [h EXCEPT !.st[b].temperature[itime + 1] = T,
              !.st[b].pressure[itime + 1] = Pressure(h.st[b], itime, T),
              !.res = @ \o <<<<"temperature", itime>>, <<"pressure", itime>>>>])

\* A difference that is never halved.
DifferenceWhole(h, b, at, to, from, half, dtion) ==
  [h EXCEPT
     !.st[b].velocities =
       [i \in 1..Len(@) |->
          IF (i - 1) \div (3 * natom) # at THEN @[i]
          ELSE FDiv(FSub(h.st[b].xcart[to * 3 * natom
                                         + ((i - 1) % (3 * natom)) + 1],
                         h.st[b].xcart[from * 3 * natom
                                         + ((i - 1) % (3 * natom)) + 1]),
                    dtion)],
     !.res = @ \o <<<<"velocities", at>>>>]

\* (x[to] - x[from]) * scale / dtion for every entry of frame at, lines
\* 828-831, 835-838 and 842-845.
Difference(h, b, at, to, from, half, dtion) ==
  [h EXCEPT
     !.st[b].velocities =
       [i \in 1..Len(@) |->
          IF (i - 1) \div (3 * natom) # at THEN @[i]
          ELSE Bind(FSub(h.st[b].xcart[to * 3 * natom
                                         + ((i - 1) % (3 * natom)) + 1],
                         h.st[b].xcart[from * 3 * natom
                                         + ((i - 1) % (3 * natom)) + 1]),
                    LAMBDA d :
                      FDiv(IF half THEN FMul(FPow2(-1), d) ELSE d, dtion))],
     !.res = @ \o <<<<"velocities", at>>>>]

\* computeVelocitiesPressureTemperature(itime, dtion) on store b.
ComputeVPT(h0, b, itime, dtion) ==
  Bind(IF itime >= 2
         THEN Bind(Difference(h0, b, itime - 1, itime, itime - 2, TRUE,
                              dtion), LAMBDA hd :
                ComputePressureTemperature(hd, b, itime - 1))
         ELSE h0, LAMBDA h1 :
  Bind(IF itime = h1.st[b].ntime - 1 /\ itime > 0
         THEN Bind(Difference(h1, b, itime, itime, itime - 1, FALSE, dtion),
                LAMBDA hd : ComputePressureTemperature(hd, b, itime))
         ELSE h1, LAMBDA h2 :
    IF itime = 1
      THEN Bind(Difference(h2, b, 0, itime, itime - 1, FALSE, dtion),
             LAMBDA hd : ComputePressureTemperature(hd, b, 0))
      ELSE h2))

\* The timesteps 100, 3 and 1/8.
IonTimesteps == {DefaultDt, FFromNat(3), FPow2(-3)}

Seeds == {1, 2}

InitLoad ==
  /\ natom \in 1..MaxAtoms
  /\ tryToMap = FALSE
  /\ \E n \in 2..MaxFrames, seed \in Seeds :
       md = [id \in Ids |->
               LoadedStore(id, IF id = 1 THEN n ELSE 0, natom, seed)]
  /\ \E dtion \in IonTimesteps :
       last = [op |-> "read", b |-> 0, a |-> 0, pre |-> md, ub |-> FALSE,
               base |-> 0, r |-> NoOrder, outcome |-> "ok", arg |-> dtion,
               wr |-> {}, res |-> <<>>, warn |-> {}]
  /\ steps = 0
  /\ fft = NoCalls

\* The reader calls computeVelocitiesPressureTemperature(itime, dtion) for
\* itime = 1, 2, ..., ntime-1 in this order, with one dtion.
ComputeVelocitiesPressureTemperature(b) ==
  /\ steps + 1 <= md[b].ntime - 1
  /\ \E h0 \in {[Start(md) EXCEPT !.arg = last.arg, !.res = last.res]} :
     \E h \in {ComputeVPT(h0, b, steps + 1, last.arg)} :
       Done("computeVelocities", b, 0, h, NoOrder, "ok")

NextLoad == ComputeVelocitiesPressureTemperature(1)

SpecLoad == InitLoad /\ [][NextLoad]_vars

\* computePressureTemperature(itime) called on its own.
ComputePT(b) ==
  /\ steps = 0
  /\ \E itime \in 0..md[b].ntime - 1 :
     \E h0 \in {[Start(md) EXCEPT !.arg = itime]} :
     \E h \in {ComputePressureTemperature(h0, b, itime)} :
       Done("computePT", b, 0, h, NoOrder, "ok")

NextPT == ComputePT(1)

SpecPT == InitLoad /\ [][NextPT]_vars

(***************************************************************************)
(* Ddb::getDdb: the reader of the first format that accepts the file.      *)
(***************************************************************************)

\* allFormat as lines 122-124 fill it.
Formats == <<"Abinit DDB", "Phonopy YAML", "OUTCAR">>

\* File names, as the pieces find() can tell apart.
FileNames ==
  {<<"run", ".ddb">>, <<"phonopy", ".yaml">>, <<"OUTCAR">>,
   <<"OUTCAR", ".yaml">>}

\* file.find(piece) != std::string::npos
Contains(file, piece) == \E i \in 1..Len(file) : file[i] = piece

\* allFormat[i].swap(allFormat[j]), indices from 1.
Swap(seq, i, j) ==
  [k \in 1..Len(seq) |->
     IF k = i THEN seq[j] ELSE IF k = j THEN seq[i] ELSE seq[k]]

\* An order of the formats that does not depend on the file name.
AllFormatFixed(file) == Formats

\* Lines 132-133: the order in which the formats are tried.
AllFormat(file) ==
  IF Contains(file, ".yaml") THEN Swap(Formats, 1, 2)
  ELSE IF Contains(file, "OUTCAR") THEN Swap(Formats, 1, 3)
  ELSE Formats

\* What readFromFile does: it reads the file, or throws an Exception with
\* this return value.
ReaderOutcomes == {"ok", "ERRDIV", "ERRWAR", "ERRABT"}

\* Lines 135-153, one turn of the loop for the format p of reader outcome
\* out; acc.leave says that the loop was left by break or return.
TryFormat(acc, p, out) ==
  IF acc.leave THEN acc
  ELSE IF out = "ok"
    THEN [acc EXCEPT !.ddb = p, !.tried = Append(@, p), !.leave = TRUE,
                     !.log = Append(@, "Format is " \o p)]
  ELSE IF out = "ERRABT"
    THEN [acc EXCEPT !.ddb = "nullptr", !.tried = Append(@, p),
                     !.leave = TRUE]
  ELSE [acc EXCEPT !.ddb = "nullptr", !.tried = Append(@, p),
                   !.eloc = Append(@, "Format is not " \o p)]

\* Ddb::getDdb(infile) for the readers' outcomes reader (by format).
GetDdbResult(file, reader) ==
  Bind(AllFormat(file), LAMBDA allFormat :
  Bind(Iter(LAMBDA acc, i : TryFormat(acc, allFormat[i + 1],
                                       reader[allFormat[i + 1]]),
            [ddb |-> "nullptr", tried |-> <<>>, leave |-> FALSE,
             eloc |-> <<>>, log |-> <<>>],
            0, Len(allFormat)), LAMBDA acc :
    IF acc.ddb # "nullptr"
      THEN [ret |-> acc.ddb, thrown |-> <<>>, tried |-> acc.tried]
      ELSE [ret |-> "none",
            thrown |-> Append(acc.eloc, "Failed to build the DDB"),
            tried |-> acc.tried]))

InitDdb ==
  /\ natom = 1
  /\ tryToMap = FALSE
  /\ md = [id \in Ids |-> ReadStore(id, 0, natom)]
  /\ last = [op |-> "read", b |-> 0, a |-> 0, pre |-> md, ub |-> FALSE,
             base |-> 0, r |-> NoOrder, outcome |-> "ok", arg |-> NoArg,
             wr |-> {}, res |-> <<>>, warn |-> {}]
  /\ steps = 0
  /\ fft = NoCalls

GetDdb ==
  /\ steps = 0
  /\ \E file \in FileNames :
     \E reader \in [{Formats[i] : i \in 1..Len(Formats)} -> ReaderOutcomes] :
     \E res \in {GetDdbResult(file, reader)} :
     \E h \in {[Start(md) EXCEPT !.arg = [file |-> file, reader |-> reader],
                                  !.res = res]} :
       Done("getDdb", 0, 0, h, NoOrder,
            IF res.thrown = <<>> THEN "ok" ELSE "throw")

NextDdb == GetDdb

SpecDdb == InitDdb /\ [][NextDdb]_vars

(***************************************************************************)
(* Properties.  last.pre is the objects before the last call, last.b the   *)
(* object it was called on and last.a its argument.                        *)
(***************************************************************************)

\* Every MD series of s has its ntime frames: the reader's state.
Consistent(s) ==
  /\ Len(s.ekin) = s.ntime
  /\ Len(s.temperature) = s.ntime
  /\ Len(s.pressure) = s.ntime
  /\ Len(s.entropy) = s.ntime
  /\ Len(s.velocities) = 3 * natom * s.ntime

IsMerge == last.op \in {"merge", "mergeGeneric"}

\* A merge of two stores that both held exactly their ntime frames.
MergedConsistent ==
  /\ IsMerge
  /\ Consistent(last.pre[last.b])
  /\ Consistent(last.pre[last.a])

OldN == last.pre[last.b].ntime

AppN == last.pre[last.a].ntime

\* Component c (0..2) of atom j (1..natom) in frame t (from 0) of s.
Vel(s, t, j, c) == s.velocities[t * 3 * natom + (j - 1) * 3 + c + 1]

LengthsAfterMerge ==
  /\ md[last.b].ntime = OldN + AppN
  /\ Consistent(md[last.b])

\* C1: after base += app of two MD stores whose series have length ntime,
\* base.ntime is the sum of both frame counts, ekin, temperature, pressure
\* and entropy have length base.ntime and the velocities 3*natom*base.ntime
\* (stated here for two distinct stores and a call that returns).
C1_MergeLengths ==
  MergedConsistent /\ last.a # last.b /\ last.outcome = "ok"
    => LengthsAfterMerge

\* Series f of base is its old content followed by the content of app.
Concatenated(f) ==
  /\ \A i \in 1..OldN * Width(f) :
       md[last.b][f][i] = last.pre[last.b][f][i]
  /\ \A i \in 1..AppN * Width(f) :
       md[last.b][f][OldN * Width(f) + i] = last.pre[last.a][f][i]

\* C2: after base += app of two distinct MD stores whose series have
\* length ntime, kinetic energy, temperature and pressure are each the old
\* series of base followed by the series of app.
C2_Concatenation ==
  MergedConsistent /\ last.a # last.b
    => /\ last.outcome = "ok"
       /\ \A f \in {"ekin", "temperature", "pressure"} :
            /\ Len(md[last.b][f]) = OldN + AppN
            /\ Concatenated(f)

C2_Witness ==
  /\ MergedConsistent /\ last.a # last.b /\ last.outcome = "ok"
  /\ OldN = 2 /\ AppN >= 1
  /\ md[last.b].temperature[3] = last.pre[last.a].temperature[1]

\* Every series of base starts with what it held before the call.
FirstHalfKept ==
  \A f \in {"ekin", "velocities", "temperature", "pressure", "entropy"} :
    \A i \in 1..OldN * Width(f) :
      /\ i <= Len(md[last.b][f])
      /\ md[last.b][f][i] = last.pre[last.b][f][i]

\* C3: merging an MD store with itself doubles ntime and leaves the first
\* half of every series as it was.
C3_SelfMerge ==
  MergedConsistent /\ last.a = last.b
    => /\ last.outcome = "ok"
       /\ md[last.b].ntime = 2 * OldN
       /\ FirstHalfKept

Permuting == tryToMap /\ last.r.ok /\ last.r.order # Identity

\* C4: with reconciliation enabled and a non-identity order mapping atom j
\* of app to atom order[j] of base, base.velocities[old + t][order[j]][c] =
\* app.velocities[t][j][c] for every appended frame; otherwise (disabled or
\* identity) the appended velocities are copied unpermuted.
C4_PermutedVelocities ==
  MergedConsistent /\ last.a # last.b /\ OldN >= 1 /\ AppN >= 1
   /\ last.outcome = "ok" /\ (tryToMap => last.r.ok)
    => \A t \in 0..AppN - 1 : \A j \in 1..natom : \A c \in 0..2 :
         IF Permuting
           THEN Vel(md[last.b], OldN + t, last.r.order[j], c)
                  = Vel(last.pre[last.a], t, j, c)
           ELSE Vel(md[last.b], OldN + t, j, c)
                  = Vel(last.pre[last.a], t, j, c)

IsInterp == last.op = "interpolate"

\* The amplitudes of the model within 1e-10 of 1: 1 and 1 - 2^-40.
NearOne == {FOne, FSub(FOne, FPow2(-40))}

\* ninter*(ntime-1) frames, one fewer per interior boundary for an
\* amplitude within 1e-10 of 1.
ExpectedFrames ==
  last.arg.ninter * (OldN - 1)
    - (IF last.arg.amplitude \in NearOne THEN OldN - 2 ELSE 0)

\* C5: for ntime >= 2 and ninter >= 2, interpolate(ninter, amplitude)
\* produces ninter*(ntime-1) frames when amplitude differs from 1 by at
\* least 1e-10 and ninter*(ntime-1) - (ntime-2) frames when it is within
\* 1e-10 of 1; every slot in [0, frames) is written and no other slot is.
C5_InterpolatedFrames ==
  IsInterp
    => /\ md[last.b].ntime = ExpectedFrames
       /\ Len(md[last.b].velocities) = 3 * natom * ExpectedFrames
       /\ Len(md[last.b].entropy) = ExpectedFrames
       /\ last.wr = 0..ExpectedFrames - 1

C5_Witness ==
  /\ IsInterp
  /\ last.arg.amplitude = FSub(FOne, FPow2(-40))
  /\ last.arg.ninter = 3
  /\ OldN = 3
  /\ md[last.b].ntime = 5
  /\ last.wr = 0..4

\* C6: after interpolate(ninter, 1) on a store with ntime >= 2 and
\* ninter >= 2, for every original frame k the interpolated series hold at
\* index k*(ninter-1) exactly the value recorded at frame k, for velocities,
\* kinetic energy, temperature, pressure and entropy.
C6_BoundaryExact ==
  IsInterp /\ last.arg.amplitude = FOne
    => \A k \in 0..OldN - 1 :
       \A f \in {"velocities", "ekin", "temperature", "pressure", "entropy"} :
       \A i \in 1..Width(f) :
         md[last.b][f][Width(f) * k * (last.arg.ninter - 1) + i]
           = last.pre[last.b][f][Width(f) * k + i]

\* C7: in every state reached by construction, merges and interpolations,
\* the kinetic-energy, temperature, pressure and entropy series have the
\* same length and the velocity series 3*natom times that length.
C7_SameLengths ==
  last.outcome = "ok"
    => /\ Len(md[1].ekin) = Len(md[1].temperature)
       /\ Len(md[1].ekin) = Len(md[1].pressure)
       /\ Len(md[1].ekin) = Len(md[1].entropy)
       /\ Len(md[1].velocities) = 3 * natom * Len(md[1].ekin)

IsVacf == last.op = "vacf"

\* The sum of the accumulators of species 1..t, in that order.
RECURSIVE SumTypes(_, _)
SumTypes(acc, t) ==
  IF t = 0 THEN FZero ELSE FAdd(SumTypes(acc, t - 1), acc[t])

Conserved ==
  \A itau \in 0..last.arg.ntau - 1 :
    last.res.tmp[itau][0] = SumTypes(last.res.tmp[itau], last.arg.ntypes)

\* C8: for every window tbegin < tend <= ntime and every lag returned by
\* getVACF, with every species index in 1..speciesCount, the un-normalized
\* all-species accumulator equals the sum of the un-normalized per-species
\* accumulators.
C8_Conservation == IsVacf => Conserved

\* C8 (amended): the all-species accumulator equals the sum of the
\* per-species accumulators when no addition of the accumulation rounds,
\* as for integer-valued autocorrelations; otherwise the two agree only up
\* to the rounding of the additions.
C8_ConservationExact == IsVacf /\ last.arg.scale = 1 => Conserved

C8_Witness ==
  /\ IsVacf
  /\ last.arg.scale = 1
  /\ last.arg.ntypes = 2
  /\ last.arg.ntau = 2
  /\ last.res.count[1] >= 1
  /\ last.res.count[2] >= 1
  /\ last.res.tmp[1][2] # FZero
  /\ last.res.tmp[1][0] = FAdd(last.res.tmp[1][1], last.res.tmp[1][2])

IsGet == last.op = "get"

\* C9: for every time >= ntime each of getVel, getEkin, getTemperature and
\* getPressure raises instead of returning data, for every time < ntime
\* each returns the stored value of frame time, and a failed lookup changes
\* nothing in the store.
C9_Lookups ==
  IsGet /\ Consistent(last.pre[last.b])
    => IF last.arg.time >= OldN
         THEN last.outcome = "throw" /\ md = last.pre
         ELSE /\ last.outcome = "ok"
              /\ last.res = SubSeq(md[last.b][last.arg.field],
                                   Width(last.arg.field) * last.arg.time + 1,
                                   Width(last.arg.field) * (last.arg.time + 1))

\* C10: every PDOS computation requested with tsmear < 0 is rejected with
\* a validation failure and yields no spectrum, through the plot commands
\* pdos and thermo and through getPDOS called directly (stated for a build
\* that has the transform).
C10_NegativeSmearingRejected ==
  last.op = "pdos" /\ last.arg.fftw3 /\ last.arg.given /\ last.arg.tsmear < 0
    => last.outcome = "validation" /\ last.res = <<>>

IsAnalysis == last.op = "analysis"

\* C11: whenever printThermo, getVACF, getPDOS, computeThermoFunctionHA or
\* plot runs into a failure (bad frame range, negative tsmear, missing
\* transform, autocorrelation failure), the failure is delivered to the
\* caller and every series of the store is as it was before the call.
C11_FailuresDelivered ==
  IsAnalysis /\ last.arg.fail # "none"
    => last.outcome = "throw" /\ md = last.pre

\* C12: if getPDOS fails inside computeThermoFunctionHA(tbegin, tend,
\* omegaMax), the call ends by raising that failure; it never goes on to
\* the integration and never returns a tuple (F, E, Cv, S).
C12_PDOSFailureRaised ==
  (IsAnalysis /\ last.arg.op = "computeThermoFunctionHA"
     /\ last.arg.fail \in {"capability", "acf"})
    => /\ last.outcome = "throw"
       /\ ~last.arg.integrated
       /\ last.res = <<>>

\* C13: consistency warnings never abort a merge: base += app of two MD
\* stores whose series have length ntime returns normally and base gets
\* all the frames of app, whether or not the timestep, temperature or
\* pressure warnings are printed.
C13_WarningsDoNotAbort ==
  MergedConsistent /\ last.a # last.b
    => /\ last.outcome = "ok"
       /\ md[last.b].ntime = OldN + AppN
       /\ Len(md[last.b].time) = OldN + AppN
       /\ SubSeq(md[last.b].time, OldN + 1, OldN + AppN)
            = last.pre[last.a].time

C13_Witness ==
  /\ MergedConsistent /\ last.a # last.b
  /\ last.warn = {"dt", "T", "P"}
  /\ AppN = 2
  /\ last.outcome = "ok"
  /\ md[last.b].ntime = OldN + 2

\* _time[1] - _time[0]
Spacing(s) == FSub(s.time[2], s.time[1])

\* |d1 - d2| > 1e-6 * |d1|
RelativelyDifferent(d1, d2) ==
  FLess(FMul(DtTol, FAbs(d1)), FAbs(FSub(d1, d2)))

\* C20: through either overload of operator+=, the timestep warning is
\* printed if and only if base and app each had at least 2 frames before
\* the merge and the relative difference of their own frame spacings
\* exceeds 1e-6.
C20_TimestepWarning ==
  MergedConsistent /\ last.outcome = "ok"
    => ("dt" \in last.warn
          <=> /\ OldN >= 2
              /\ AppN >= 2
              /\ RelativelyDifferent(Spacing(last.pre[last.b]),
                                     Spacing(last.pre[last.a])))

IsThermo == last.op = "thermo" /\ last.outcome = "ok"

\* Sum over i in [0, nmax-1) of (pdos[i] + pdos[i+1]) * domega / 2.
Integral(pdos, nmax, domega) ==
  Iter(LAMBDA sum, i :
         FAdd(sum,
              FMul(FMul(FAdd(pdos[i + 1], pdos[i + 2]), domega), FPow2(-1))),
       FZero, 0, nmax - 1)

RenormalizedIntegral ==
  Integral(last.res.pdos, last.res.nmax, last.res.domega)

BinsAboveCutoffKept ==
  \A i \in last.res.nmax + 1..Len(last.arg.pdos) :
    last.res.pdos[i] = last.arg.pdos[i]

\* C14: after computeThermoFunctionHA on a PDOS of length >= 2 with
\* positive integral and nmax >= 2, the renormalized PDOS satisfies
\* sum over i in [0, nmax-1) of (pdos[i] + pdos[i+1]) * domega / 2 = 1,
\* and the bins at index >= nmax are unchanged.
C14_IntegralIsOne ==
  IsThermo /\ last.res.nmax >= 2
    => RenormalizedIntegral = FOne /\ BinsAboveCutoffKept

\* C14 (amended): the integral of the renormalized PDOS is 1 within 1e-6,
\* and the bins at index >= nmax are unchanged.
C14_IntegralNearOne ==
  IsThermo /\ last.res.nmax >= 2
    => /\ FLess(FAbs(FSub(RenormalizedIntegral, FOne)), DtTol)
       /\ BinsAboveCutoffKept

C14_Witness ==
  /\ IsThermo
  /\ ~last.arg.negative
  /\ last.res.nmax = 2
  /\ Len(last.arg.pdos) = 3
  /\ last.res.pdos[3] = FFromNat(3)
  /\ last.res.pdos[1] # last.arg.pdos[1]
  /\ RenormalizedIntegral # FOne
  /\ FLess(FAbs(FSub(RenormalizedIntegral, FOne)), DtTol)

Flat(pdos) == \A i \in 1..Len(pdos) : pdos[i] = pdos[1]

Numbers == {"zero", "finite"}

\* C15: for a flat PDOS, computeThermoFunctionHA returns S and Cv that tend
\* to 0 as T tends to 0, and Cv that tends to 3 as T grows large: at the
\* temperatures below 1 K the returned S and Cv are numbers (neither an
\* infinity nor not-a-number), and at the temperatures from 512 K on Cv is one.
C15_ThermoLimits ==
  IsThermo /\ last.res.nmax >= 2 /\ Flat(last.arg.pdos)
    => /\ Magnitude(last.arg.T) < 1
            => last.res.thermo.S \in Numbers /\ last.res.thermo.C \in Numbers
       /\ Magnitude(last.arg.T) > 9
            => last.res.thermo.C \in Numbers

\* The statements that construct the transform plan (with the planner
\* thread-count configuration before it) or destroy it.
PlannerCalls ==
  {"fftw_plan_with_nthreads", "fftw_plan_many_r2r", "fftw_destroy_plan"}

InPlanner == {t \in Threads : fft.pc[t] \in PlannerCalls}

\* C16: across the threads concurrently executing getPDOS, at most one
\* thread at a time is inside transform-plan construction (including the
\* planner thread-count configuration that precedes it) or transform-plan
\* destruction, while plan execution and smearing run outside the critical
\* section.
C16_PlannerSerialized ==
  /\ Cardinality(InPlanner) <= 1
  /\ \A t \in Threads :
       fft.pc[t] \in {"fftw_execute", "smear"} => fft.owner # t

\* C17: after base += app of two distinct MD stores whose series have
\* length ntime, the entropy of base is its old entropy followed by the
\* entropy of app, like every other series.
C17_EntropyConcatenated ==
  MergedConsistent /\ last.a # last.b /\ last.outcome = "ok"
    => /\ Len(md[last.b].entropy) = OldN + AppN
       /\ Concatenated("entropy")

\* The series of s are allocated to ntimeAvail > ntime, as the
\* constructors from a generic store allocate them.
Reserved(s) ==
  /\ s.ntimeAvail > s.ntime
  /\ \A f \in {"ekin", "velocities", "temperature", "pressure", "entropy"} :
       Len(s[f]) = s.ntimeAvail * Width(f)

\* Frame i of series f of app is at frame OldN + i of base.
AppendedAtOldN(f) ==
  \A i \in 1..AppN * Width(f) :
    /\ OldN * Width(f) + i <= Len(md[last.b][f])
    /\ md[last.b][f][OldN * Width(f) + i] = last.pre[last.a][f][i]

\* C18: when the series of base were allocated to ntimeAvail > ntime, a
\* merge writes frame i of app at index (previously filled frame count of
\* base + i) of kinetic energy, temperature, pressure and velocities, and
\* never writes past the end of a resized series.
C18_ReservedBase ==
  /\ IsMerge
  /\ last.a # last.b
  /\ Reserved(last.pre[last.b])
  /\ Consistent(last.pre[last.a])
  => /\ ~last.ub
     /\ last.outcome = "ok"
     /\ \A f \in {"ekin", "temperature", "pressure", "velocities"} :
          AppendedAtOldN(f)

\* Store s holds its ntime frames, with or without velocities.
ConsistentOrNoVel(s) ==
  /\ Len(s.ekin) = s.ntime
  /\ Len(s.temperature) = s.ntime
  /\ Len(s.pressure) = s.ntime
  /\ Len(s.entropy) = s.ntime
  /\ Len(s.velocities) \in {0, 3 * natom * s.ntime}

OneLacksVelocities ==
  (last.pre[last.b].velocities = <<>>) # (last.pre[last.a].velocities = <<>>)

\* The velocities of base are those of the store that had them, at the
\* frames of that store, and zero at the frames of the other store.
VelocitiesDefaulted ==
  /\ \A i \in 1..OldN * 3 * natom :
       md[last.b].velocities[i] =
         IF last.pre[last.b].velocities = <<>> THEN FZero
         ELSE last.pre[last.b].velocities[i]
  /\ \A i \in 1..AppN * 3 * natom :
       md[last.b].velocities[OldN * 3 * natom + i] =
         IF last.pre[last.a].velocities = <<>> THEN FZero
         ELSE last.pre[last.a].velocities[i]

\* C19: if exactly one of the two MD stores being merged has an empty
\* velocity series, the merge completes without failure, the velocities of
\* the result have length 3*natom*base.ntime, are zero in every frame that
\* came from the store lacking velocities and are the other store's
\* velocities at that store's frames (stated without atom reordering).
C19_MissingVelocities ==
  /\ IsMerge
  /\ last.a # last.b
  /\ ConsistentOrNoVel(last.pre[last.b])
  /\ ConsistentOrNoVel(last.pre[last.a])
  /\ OneLacksVelocities
  /\ ~Permuting
  => /\ last.outcome = "ok"
     /\ md[last.b].ntime = OldN + AppN
     /\ Len(md[last.b].velocities) = 3 * natom * md[last.b].ntime
     /\ VelocitiesDefaulted

\* The pair (k, tinter) whose blend is the last one written to the output
\* frame slot: with the duplicates elided, the first frame of segment k is
\* overwritten by the last frame of segment k - 1.
LastWriter(slot, ninter, dup) ==
  IF ~dup
    THEN [k |-> slot \div ninter + 1,
          tinter |-> ninter - 1 - (slot % ninter)]
  ELSE IF slot = 0 THEN [k |-> 1, tinter |-> ninter - 1]
  ELSE Bind((slot - 1) \div (ninter - 1) + 1, LAMBDA k :
         [k |-> k, tinter |-> (ninter - 1) * k - slot])

\* (1 - b)*orig[k] + b*orig[k-1] with b = tinter*(amplitude/(ninter-1)),
\* for entry i of series f.
BlendOfRecorded(f, i, k, tinter) ==
  Bind(FMul(FFromNat(tinter),
            FDivNat(last.arg.amplitude, last.arg.ninter - 1)), LAMBDA beta :
    Blend(FSub(FOne, beta), beta,
          last.pre[last.b][f][Width(f) * k + i],
          last.pre[last.b][f][Width(f) * (k - 1) + i]))

\* C21: for every adjacent original pair (k-1, k), every tinter in
\* [0, ninter) and every amplitude in (0, 1], the synthetic frame that
\* interpolate leaves in the output for (k, tinter) equals
\* (1 - b)*orig[k] + b*orig[k-1] with b = tinter*amplitude/(ninter-1), orig
\* being the values recorded before interpolate started: the in-place fill
\* never uses an original frame after overwriting it with another value.
C21_BlendOfOriginals ==
  IsInterp
    => \A slot \in 0..md[last.b].ntime - 1 :
       \A f \in {"velocities", "ekin", "temperature", "pressure", "entropy"} :
       \A i \in 1..Width(f) :
         LET w == LastWriter(slot, last.arg.ninter,
                             RemoveDuplica(last.arg.amplitude))
         IN md[last.b][f][Width(f) * slot + i]
              = BlendOfRecorded(f, i, w.k, w.tinter)

\* Every call of the sequence itime = 1..ntime-1 has been made.
Loaded ==
  /\ last.op = "computeVelocities"
  /\ steps = md[last.b].ntime - 1

\* The positions in last.res of the writes of series f at frame j.
WritesOf(f, j) == {p \in 1..Len(last.res) : last.res[p] = <<f, j>>}

\* Frame j got one velocity, then one temperature, then one pressure.
WrittenOnceInOrder(j) ==
  /\ \A f \in {"velocities", "temperature", "pressure"} :
       Cardinality(WritesOf(f, j)) = 1
  /\ \A pv \in WritesOf("velocities", j), pt \in WritesOf("temperature", j),
        pp \in WritesOf("pressure", j) : pv < pt /\ pt < pp

\* (x[to] - x[from]) / (scale*dtion) for entry c (from 1) of a frame.
FiniteDifference(c, to, from, scale) ==
  FDiv(FSub(md[last.b].xcart[to * 3 * natom + c],
            md[last.b].xcart[from * 3 * natom + c]),
       FMul(FFromNat(scale), last.arg))

\* Forward difference at frame 0, backward at frame ntime-1, central at
\* the frames between.
ExpectedVelocity(j, c) ==
  IF j = 0 THEN FiniteDifference(c, 1, 0, 1)
  ELSE IF j = md[last.b].ntime - 1 THEN FiniteDifference(c, j, j - 1, 1)
  ELSE FiniteDifference(c, j + 1, j - 1, 2)

\* C22: for a store with ntime >= 2, the calls
\* computeVelocitiesPressureTemperature(itime, dtion) for itime = 1, 2, ...,
\* ntime-1 in increasing order assign a velocity, a temperature and a
\* pressure to every frame exactly once: frame 0 by the forward difference,
\* frame ntime-1 by the backward difference, every interior frame j by the
\* central difference (x[j+1]-x[j-1])/(2*dtion), the temperature and the
\* pressure of a frame being computed after its velocity.
C22_EveryFrameOnce ==
  Loaded
    => \A j \in 0..md[last.b].ntime - 1 :
         /\ WrittenOnceInOrder(j)
         /\ \A c \in 1..3 * natom :
              md[last.b].velocities[j * 3 * natom + c] = ExpectedVelocity(j, c)
         /\ md[last.b].temperature[j + 1] = Temperature(md[last.b], j)
         /\ md[last.b].pressure[j + 1]
              = Pressure(md[last.b], j, md[last.b].temperature[j + 1])

C22_Witness ==
  /\ Loaded
  /\ md[last.b].ntime = 4
  /\ natom = 2
  /\ last.arg = FFromNat(3)
  /\ Len(last.res) = 12
  /\ md[last.b].velocities[3 * natom + 1] = FiniteDifference(1, 2, 0, 2)
  /\ md[last.b].velocities[3 * natom + 1] # FiniteDifference(1, 2, 1, 1)
  /\ md[last.b].velocities[3 * natom + 1] # FiniteDifference(1, 1, 0, 1)

IsComputePT == last.op = "computePT"

\* The entries of series f other than entry keep (from 1) are as before.
OthersKept(f, keep) ==
  /\ Len(md[last.b][f]) = Len(last.pre[last.b][f])
  /\ \A i \in 1..Len(md[last.b][f]) :
       i # keep => md[last.b][f][i] = last.pre[last.b][f][i]

\* The store before the call, its kinetic energy replaced by zeros.
WithoutEkin ==
  [last.pre[last.b] EXCEPT !.ekin = [i \in 1..Len(@) |-> FZero]]

\* C23: computePressureTemperature(itime) modifies only temperature[itime]
\* and pressure[itime]; the temperature it writes is
\* (sum over atoms of mass*|v|^2) / (3*kB*natom) from the velocities of
\* frame itime, whatever the kinetic energy; velocities, kinetic energy,
\* entropy and the temperature and pressure of every other frame are
\* unchanged, and the pressure uses the temperature of the same call.
C23_OnlyOneFrame ==
  IsComputePT
    => /\ \A f \in DOMAIN md[last.b] \ {"temperature", "pressure"} :
            md[last.b][f] = last.pre[last.b][f]
       /\ OthersKept("temperature", last.arg + 1)
       /\ OthersKept("pressure", last.arg + 1)
       /\ md[last.b].temperature[last.arg + 1]
            = Temperature(WithoutEkin, last.arg)
       /\ md[last.b].pressure[last.arg + 1]
            = Pressure(last.pre[last.b], last.arg,
                       md[last.b].temperature[last.arg + 1])

C23_Witness ==
  /\ IsComputePT
  /\ last.arg = 1
  /\ natom = 2
  /\ md[last.b].ntime = 3
  /\ md[last.b].temperature[2] # last.pre[last.b].temperature[2]
  /\ md[last.b].temperature[2] # TemperatureFromEkin(last.pre[last.b], 1)
  /\ md[last.b].pressure[2] # last.pre[last.b].pressure[2]
  /\ md[last.b].temperature[3] = last.pre[last.b].temperature[3]

\* The structural matching ran during the last merge, of two stores that
\* hold frames, and failed.
ReorderFailed ==
  /\ MergedConsistent /\ last.a # last.b
  /\ OldN >= 1 /\ AppN >= 1
  /\ tryToMap /\ ~last.r.ok

\* C24: if reorder fails during a merge with reconciliation enabled, the
\* failure is re-raised to the caller of the merge; the merge never
\* completes with the velocities of the appended segment appended
\* unpermuted.
C24_ReorderFailureRaised ==
  ReorderFailed
    => /\ last.outcome = "throw"
       /\ md[last.b].velocities = last.pre[last.b].velocities

\* C25: for either merge entry point and any base store, including one
\* whose MD series length differs from its ntime, the frame count and the
\* time axis of the generic part are extended by the appended segment
\* exactly once per merge: never zero times and never twice.
C25_BaseExtendedOnce ==
  IsMerge /\ last.a # last.b
    => /\ md[last.b].ntime = OldN + AppN
       /\ md[last.b].time
            = last.pre[last.b].time \o last.pre[last.a].time
       /\ AppN >= 1 => last.base = 1

\* C26: computeThermoFunctionHA(pdos, T, omegaMax) never reads or writes a
\* PDOS index >= pdos.size() and never divides by a zero normalization,
\* for every cutoff including one that selects 0 or 1 bins.
C26_ThermoInBounds ==
  last.op = "thermo"
    => /\ ~last.res.ub
       /\ Norme(last.arg.pdos, last.res.nmax, last.res.domega) # FZero

\* C27: a merge base += app leaves the appended store app unchanged: its
\* frame count and every one of its series, the length of its velocity
\* series included, are the same after the merge as before.
C27_AppUnchanged ==
  IsMerge /\ last.a # last.b => md[last.a] = last.pre[last.a]

\* C28: for each assignment operator of the MD store, the state after
\* md = src is the state of a new MD store constructed from src, whatever
\* md held before: after the assignment of a generic store every MD series
\* is zero-filled with length ntimeAvail, and the assignment of an MD store
\* copies every MD field the copy constructor copies, the two mdtemp
\* values included.
C28_AssignLikeConstruct ==
  /\ last.op = "assignHist"
       => \A f \in {"ntime", "ntimeAvail", "ekin", "velocities",
                     "temperature", "pressure", "entropy"} :
            md[last.b][f]
              = ConstructedFromHist(last.arg.n, last.arg.avail, natom)[f]
  /\ last.op = "assignMD" => md[last.b] = last.pre[last.a]

IsGetDdb == last.op = "getDdb"

\* The format tried first for the file name of the last call.
FirstFormat ==
  IF \E i \in 1..Len(last.arg.file) : last.arg.file[i] = ".yaml"
    THEN "Phonopy YAML"
  ELSE IF \E i \in 1..Len(last.arg.file) : last.arg.file[i] = "OUTCAR"
    THEN "OUTCAR"
  ELSE "Abinit DDB"

\* The formats tried before the i-th one all failed without abort.
FailedBefore(i) ==
  \A j \in 1..i - 1 :
    last.arg.reader[last.res.tried[j]] \in {"ERRDIV", "ERRWAR"}

\* C29: Ddb::getDdb(file) tries each of the three formats at most once,
\* Phonopy first when the file name contains '.yaml', OUTCAR first when it
\* otherwise contains 'OUTCAR', Abinit first otherwise; it returns the
\* object of the first format whose reader succeeds; after a reader fails
\* with ERRABT no later format is tried; and when no reader succeeds it
\* raises 'Failed to build the DDB' instead of returning null.
C29_FirstFormatThatReads ==
  IsGetDdb
    => LET tried == last.res.tried
           n == Len(tried)
       IN /\ n \in 1..3
          /\ \A i \in 1..n, j \in 1..n : tried[i] = tried[j] => i = j
          /\ tried[1] = FirstFormat
          /\ FailedBefore(n)
          /\ last.arg.reader[tried[n]] \in {"ERRDIV", "ERRWAR"} => n = 3
          /\ IF last.arg.reader[tried[n]] = "ok"
               THEN /\ last.res.ret = tried[n]
                    /\ last.outcome = "ok"
               ELSE /\ last.res.ret = "none"
                    /\ last.outcome = "throw"
                    /\ last.res.thrown[Len(last.res.thrown)]
                         = "Failed to build the DDB"

C29_Witness ==
  /\ IsGetDdb
  /\ last.arg.file = <<"OUTCAR", ".yaml">>
  /\ last.res.tried = <<"Phonopy YAML", "Abinit DDB">>
  /\ last.arg.reader["Phonopy YAML"] = "ERRDIV"
  /\ last.arg.reader["Abinit DDB"] = "ERRABT"
  /\ last.arg.reader["OUTCAR"] = "ok"
  /\ last.outcome = "throw"

====
